---------------------------- MODULE Spec2Model ----------------------------
(***************************************************************************)
(* State-machine model of the Minesweeper board (src/game/minesweeper.py)  *)
(* and of the constraint pass of the pattern agent that reads it           *)
(* (src/ai/pattern_agent.py).                                              *)
(*                                                                         *)
(* Cells are pairs <<row, col>>, 0-based as in the source.  A grid (the    *)
(* source's list of lists) is a function from the cells of the board to    *)
(* its entries.                                                            *)
(***************************************************************************)
EXTENDS Integers, FiniteSets, Sequences, Bags, TLC

(***************************************************************************)
(* class CellState / class GameState                                       *)
(***************************************************************************)
HIDDEN   == "HIDDEN"
REVEALED == "REVEALED"
FLAGGED  == "FLAGGED"

READY   == "READY"
PLAYING == "PLAYING"
WON     == "WON"
LOST    == "LOST"

(***************************************************************************)
(* class Difficulty: the presets (rows, cols, mines).  The source's boards *)
(* (8x8/10, 16x16/40, 16x30/99) are far beyond exhaustive exploration, so  *)
(* the three presets are scaled down.  The scaling keeps what the code     *)
(* relies on: on every preset, every first click leaves at least           *)
(* num_mines cells outside the excluded zone, so random.sample never       *)
(* raises, and 0 < num_mines < rows*cols.  BEGINNER is the tightest one:   *)
(* a first click in the middle of the row leaves exactly num_mines cells   *)
(* to sample from.                                                         *)
(***************************************************************************)
BEGINNER     == <<1, 5, 2>>
INTERMEDIATE == <<1, 6, 2>>
EXPERT       == <<2, 4, 1>>
Difficulty   == {BEGINNER, INTERMEDIATE, EXPERT}

\* None as a return value, and None as the difficulty argument of reset
None         == "None"
NoDifficulty == << >>

(***************************************************************************)
(* Bound of the exploration: the player keeps at most MaxFlags flags on    *)
(* the board at a time.                                                    *)
(***************************************************************************)
MaxFlags == 2

VARIABLES
    rows, cols, num_mines,   \* self.rows, self.cols, self.num_mines
    board,                   \* self.board: cell -> number
    cell_states,             \* self.cell_states: cell -> CellState
    mines,                   \* self.mines: set of cells
    game_state,              \* self.game_state
    flags_placed,            \* self.flags_placed
    cells_revealed,          \* self.cells_revealed
    first_click,             \* self.first_click
    ret,                     \* what the latest reveal_cell call returned
                             \* ("True", "False"); None: no call since the
                             \* board was built or reset
    mine_targeted,           \* history: since the last reset, some reveal_cell
                             \* call made in READY or PLAYING named a cell
                             \* that holds a mine
    hidden_mine_hit,         \* history: since the last reset, some reveal_cell
                             \* call made in READY or PLAYING named a HIDDEN
                             \* cell that holds a mine
    last_call,               \* history: the latest call on the board (only
                             \* kept by SpecCalls)
    found,                   \* what the latest query of the agent returned;
                             \* NoResult once the board is called again
    knowledge_base,          \* MinesweeperAgent.knowledge_base
    entries,                 \* Leaderboard.entries: name of a difficulty ->
                             \* list of entries
    file,                    \* what Leaderboard.save last wrote to
                             \* self.filename; None: there is no file
    added,                   \* history: name of a difficulty -> the bag of
                             \* the times add_entry was given
    agent,                   \* the agent run_with_ai plays with; None when
                             \* no agent plays
    applied                  \* history: the actions run_with_ai has applied
                             \* since the board was built or reset

game == <<rows, cols, num_mines, board, cell_states, mines, game_state,
          flags_placed, cells_revealed, first_click>>
vars == <<rows, cols, num_mines, board, cell_states, mines, game_state,
          flags_placed, cells_revealed, first_click, ret,
          mine_targeted, hidden_mine_hit, last_call, found,
          knowledge_base, entries, file, added, agent,
          applied>>

\* the fields of the Leaderboard, and those of the loop of run_with_ai
leaderboard == <<entries, file, added>>
demo        == <<agent, applied>>

(***************************************************************************)
(* The values of last_call and found when there is nothing to record.      *)
(*   last_call.op     "toggle_flag", "reset" or "other"                    *)
(*   last_call.at     the cell (toggle_flag) or the difficulty (reset)     *)
(*   last_call.times  toggle_flag: 1 after a call on a cell that was       *)
(*                    HIDDEN, 2 after the call that follows it at once on  *)
(*                    the same cell                                        *)
(*   last_call.before toggle_flag: the fields of the board before the      *)
(*                    first call of the pair                               *)
(*   last_call.from   game_state before the call                           *)
(*   found.op         the query, found.out the list it returned            *)
(***************************************************************************)
NoCall   == [op |-> "other", at |-> << >>, times |-> 0, before |-> << >>,
             from |-> "other"]
NoResult == [op |-> "none", out |-> << >>]

(***************************************************************************)
(* Outside the board: a Leaderboard built with no file to load, and no     *)
(* agent playing.  Leaderboard.__init__ keys the entries by the names of   *)
(* the three difficulties.                                                 *)
(***************************************************************************)
Names == {"BEGINNER", "INTERMEDIATE", "EXPERT"}

NoEntries == [name \in Names |-> << >>]

NoTimes == [name \in Names |-> EmptyBag]

Idle ==
    /\ entries = NoEntries
    /\ file = None
    /\ added = NoTimes
    /\ agent = None
    /\ applied = 0

(***************************************************************************)
(* Geometry                                                                *)
(***************************************************************************)
Cells(R, C) == (0 .. R - 1) \X (0 .. C - 1)

\* 0 <= row < self.rows and 0 <= col < self.cols
InBounds(R, C, row, col) == 0 <= row /\ row < R /\ 0 <= col /\ col < C

\* Minesweeper._get_neighbors
GetNeighbors(R, C, row, col) ==
    { p \in { <<row + dr, col + dc>> : dr \in {-1, 0, 1}, dc \in {-1, 0, 1} } :
        /\ p # <<row, col>>
        /\ InBounds(R, C, p[1], p[2]) }

\* Minesweeper._count_adjacent_mines
CountAdjacentMines(R, C, M, row, col) ==
    Cardinality({ p \in GetNeighbors(R, C, row, col) : p \in M })

(***************************************************************************)
(* Minesweeper._generate_mines.                                            *)
(*   AvailableCells: the sampling pool (every cell outside the excluded    *)
(*   zone).                                                                *)
(*   SampleMines: the sets random.sample(available_cells, num_mines) can   *)
(*   return; empty exactly when it raises ValueError (sample larger than   *)
(*   the population).                                                      *)
(*   CalculateNumbers: the "Calculate numbers" loop; a mine cell keeps     *)
(*   the entry it had.                                                     *)
(***************************************************************************)
\* fault: only the clicked cell is excluded, not its neighbours
AvailableCellsClickOnly(R, C, exclude_row, exclude_col) ==
    { p \in Cells(R, C) : p # <<exclude_row, exclude_col>> }
AvailableCells(R, C, exclude_row, exclude_col) ==
    LET excluded_cells == GetNeighbors(R, C, exclude_row, exclude_col)
                            \cup { <<exclude_row, exclude_col>> }
    IN  { p \in Cells(R, C) : p \notin excluded_cells }

\* fault: when the pool is too small, all of it is taken and nothing raised
SampleMinesPartial(R, C, N, exclude_row, exclude_col) ==
    LET available_cells == AvailableCells(R, C, exclude_row, exclude_col)
    IN  IF N > Cardinality(available_cells) THEN { available_cells }
        ELSE { M \in SUBSET available_cells : Cardinality(M) = N }
\* fault: no mine is laid
SampleMinesNone(R, C, N, exclude_row, exclude_col) == { {} }
\* fault: the mines are drawn from the whole board
SampleMinesAnywhere(R, C, N, exclude_row, exclude_col) ==
    { M \in SUBSET Cells(R, C) : Cardinality(M) = N }
SampleMines(R, C, N, exclude_row, exclude_col) ==
    { M \in SUBSET AvailableCells(R, C, exclude_row, exclude_col) :
        Cardinality(M) = N }

CalculateNumbers(R, C, M, B) ==
    [ p \in Cells(R, C) |->
        IF p \notin M THEN CountAdjacentMines(R, C, M, p[1], p[2]) ELSE B[p] ]

(***************************************************************************)
(* The conditions and updates of reveal_cell, toggle_flag and              *)
(* _reveal_recursive.  Each is preceded by a faulty variant of it (marked  *)
(* "fault"), which no action uses: a fault is a plausible wrong version of *)
(* the code, one that the properties below tell apart from the code.       *)
(***************************************************************************)
\* fault: a won game is not held to be over
GameOverLostOnly(gs) == gs = LOST
\* self.game_state in [GameState.WON, GameState.LOST]
GameOver(gs) == gs \in {WON, LOST}

\* fault: the check of the state of the cell is missing
CanRevealAny(cs, row, col) == TRUE
\* fault: a flagged cell can be revealed
CanRevealFlagged(cs, row, col) == cs[<<row, col>>] # REVEALED
\* reveal_cell goes on past "Can't reveal flagged or already revealed cells":
\* not (self.cell_states[row][col] != CellState.HIDDEN)
CanReveal(cs, row, col) == cs[<<row, col>>] = HIDDEN

\* fault: the win threshold forgets the mines
WinReachedAllCells(R, C, N, n) == n = R * C
\* self.cells_revealed == (self.rows * self.cols - self.num_mines)
WinReached(R, C, N, n) == n = R * C - N

\* fault: the flood only stops at revealed cells, and runs over flags
FloodSkipsRevealedOnly(M, cs, row, col) ==
    cs[<<row, col>>] = REVEALED \/ <<row, col>> \in M
\* _reveal_recursive: the early returns on the state of the cell and on mines
FloodSkips(M, cs, row, col) ==
    cs[<<row, col>>] # HIDDEN \/ <<row, col>> \in M

\* fault: the revealed cell is not counted
MarkRevealedNoCount(st, row, col) ==
    [cs |-> [st.cs EXCEPT ![<<row, col>>] = REVEALED], n |-> st.n]
\* _reveal_recursive: the cell becomes REVEALED and is counted
MarkRevealed(st, row, col) ==
    [cs |-> [st.cs EXCEPT ![<<row, col>>] = REVEALED], n |-> st.n + 1]

\* fault: the flood never goes on to the neighbours
FloodExpandsNever(B, row, col) == FALSE
\* _reveal_recursive: self.board[row][col] == 0
FloodExpands(B, row, col) == B[<<row, col>>] = 0

(***************************************************************************)
(* fault: a flood fill without the guards of _reveal_recursive.  It        *)
(* reveals every Hidden cell it reaches, mine or not, and goes on from     *)
(* every cell.  (Dropping the mine check alone changes nothing: the flood  *)
(* only goes on from 0 cells, which have no mine next to them.)            *)
(***************************************************************************)
RECURSIVE RevealUnguarded(_, _, _, _, _, _, _)
RECURSIVE RevealUnguardedNeighbors(_, _, _, _, _, _)

RevealUnguardedNeighbors(R, C, M, B, st, todo) ==
    IF todo = {} THEN st
    ELSE LET p == CHOOSE q \in todo : TRUE
         IN  RevealUnguardedNeighbors(R, C, M, B,
                 RevealUnguarded(R, C, M, B, st, p[1], p[2]), todo \ {p})

RevealUnguarded(R, C, M, B, st, row, col) ==
    IF ~InBounds(R, C, row, col) THEN st
    ELSE IF st.cs[<<row, col>>] # HIDDEN THEN st
    ELSE RevealUnguardedNeighbors(R, C, M, B, MarkRevealed(st, row, col),
                                  GetNeighbors(R, C, row, col))

(***************************************************************************)
(* Minesweeper._reveal_recursive.  st = [cs |-> cell_states,               *)
(* n |-> cells_revealed] is the part of the object the recursion updates.  *)
(* RevealNeighbors is the loop "for nr, nc in self._get_neighbors(...)":   *)
(* it calls _reveal_recursive on each neighbour in turn, each call working *)
(* on the state the previous one left.                                     *)
(***************************************************************************)
RECURSIVE RevealRecursive(_, _, _, _, _, _, _)
RECURSIVE RevealNeighbors(_, _, _, _, _, _)

RevealNeighbors(R, C, M, B, st, todo) ==
    IF todo = {} THEN st
    ELSE LET p == CHOOSE q \in todo : TRUE
         IN  RevealNeighbors(R, C, M, B,
                             RevealRecursive(R, C, M, B, st, p[1], p[2]),
                             todo \ {p})

RevealRecursive(R, C, M, B, st, row, col) ==
    IF ~InBounds(R, C, row, col) THEN st
    ELSE IF FloodSkips(M, st.cs, row, col) THEN st
    ELSE LET st1 == MarkRevealed(st, row, col)
         IN  IF FloodExpands(B, row, col)
             THEN RevealNeighbors(R, C, M, B, st1,
                                  GetNeighbors(R, C, row, col))
             ELSE st1

(***************************************************************************)
(* Minesweeper.__init__ / Minesweeper.reset: the fresh board of a preset.  *)
(***************************************************************************)
\* fault: first_click is not set again
FreshKeepsFirstClick(d) ==
    /\ rows' = d[1] /\ cols' = d[2] /\ num_mines' = d[3]
    /\ board' = [p \in Cells(d[1], d[2]) |-> 0]
    /\ cell_states' = [p \in Cells(d[1], d[2]) |-> HIDDEN]
    /\ mines' = {}
    /\ game_state' = READY
    /\ flags_placed' = 0
    /\ cells_revealed' = 0
    /\ UNCHANGED first_click
Fresh(d) ==
    /\ rows' = d[1] /\ cols' = d[2] /\ num_mines' = d[3]
    /\ board' = [p \in Cells(d[1], d[2]) |-> 0]
    /\ cell_states' = [p \in Cells(d[1], d[2]) |-> HIDDEN]
    /\ mines' = {}
    /\ game_state' = READY
    /\ flags_placed' = 0
    /\ cells_revealed' = 0
    /\ first_click' = TRUE

Init ==
    \E d \in Difficulty :
        /\ rows = d[1] /\ cols = d[2] /\ num_mines = d[3]
        /\ board = [p \in Cells(d[1], d[2]) |-> 0]
        /\ cell_states = [p \in Cells(d[1], d[2]) |-> HIDDEN]
        /\ mines = {}
        /\ game_state = READY
        /\ flags_placed = 0
        /\ cells_revealed = 0
        /\ first_click = TRUE
        /\ ret = None
        /\ mine_targeted = FALSE /\ hidden_mine_hit = FALSE
        /\ last_call = NoCall
        /\ found = NoResult
        /\ knowledge_base = << >>
        /\ Idle

(***************************************************************************)
(* Minesweeper.reveal_cell(row, col)                                       *)
(***************************************************************************)
\* fault: the mines are generated before the coordinates are checked, so a
\* first call that names a place beyond the board starts the game
reveal_cell_generates_first(row, col) ==
    /\ UNCHANGED <<rows, cols, num_mines, flags_placed>>
    /\ IF GameOver(game_state)
       THEN /\ ret' = "False"
            /\ UNCHANGED <<board, cell_states, mines, game_state,
                           cells_revealed, first_click>>
       ELSE IF first_click /\ SampleMines(rows, cols, num_mines, row, col) = {}
       THEN /\ ret' = "ValueError"
            /\ UNCHANGED <<board, cell_states, mines, game_state,
                           cells_revealed, first_click>>
       ELSE \E M \in (IF first_click
                      THEN SampleMines(rows, cols, num_mines, row, col)
                      ELSE {mines}) :
            LET B  == IF first_click
                      THEN CalculateNumbers(rows, cols, M, board)
                      ELSE board
                gs == IF first_click THEN PLAYING ELSE game_state
            IN  /\ mines' = M
                /\ board' = B
                /\ first_click' = FALSE
                /\ IF ~InBounds(rows, cols, row, col)
                   THEN /\ ret' = "True"
                        /\ game_state' = gs
                        /\ UNCHANGED <<cell_states, cells_revealed>>
                   ELSE IF ~CanReveal(cell_states, row, col)
                   THEN /\ ret' = "True"
                        /\ game_state' = gs
                        /\ UNCHANGED <<cell_states, cells_revealed>>
                   ELSE IF <<row, col>> \in M
                   THEN /\ cell_states' =
                              [cell_states EXCEPT ![<<row, col>>] = REVEALED]
                        /\ game_state' = LOST
                        /\ ret' = "False"
                        /\ UNCHANGED cells_revealed
                   ELSE LET st == RevealRecursive(rows, cols, M, B,
                                      [cs |-> cell_states,
                                       n  |-> cells_revealed], row, col)
                        IN  /\ cell_states' = st.cs
                            /\ cells_revealed' = st.n
                            /\ game_state' =
                                 IF WinReached(rows, cols, num_mines, st.n)
                                 THEN WON ELSE gs
                            /\ ret' = "True"

\* fault: a revealed mine does not end the game
reveal_cell_plays_on(row, col) ==
    /\ UNCHANGED <<rows, cols, num_mines, flags_placed>>
    /\ IF GameOver(game_state)
       THEN /\ ret' = "False"
            /\ UNCHANGED <<board, cell_states, mines, game_state,
                           cells_revealed, first_click>>
       ELSE IF ~InBounds(rows, cols, row, col)
       THEN /\ ret' = "True"
            /\ UNCHANGED <<board, cell_states, mines, game_state,
                           cells_revealed, first_click>>
       ELSE IF first_click /\ SampleMines(rows, cols, num_mines, row, col) = {}
       THEN \* random.sample raises ValueError out of reveal_cell
            /\ ret' = "ValueError"
            /\ UNCHANGED <<board, cell_states, mines, game_state,
                           cells_revealed, first_click>>
       ELSE \E M \in (IF first_click
                      THEN SampleMines(rows, cols, num_mines, row, col)
                      ELSE {mines}) :
            LET B  == IF first_click
                      THEN CalculateNumbers(rows, cols, M, board)
                      ELSE board
                gs == IF first_click THEN PLAYING ELSE game_state
            IN  /\ mines' = M
                /\ board' = B
                /\ first_click' = FALSE
                /\ IF ~CanReveal(cell_states, row, col)
                   THEN /\ ret' = "True"
                        /\ game_state' = gs
                        /\ UNCHANGED <<cell_states, cells_revealed>>
                   ELSE IF <<row, col>> \in M
                   THEN /\ cell_states' =
                              [cell_states EXCEPT ![<<row, col>>] = REVEALED]
                        /\ game_state' = gs
                        /\ ret' = "False"
                        /\ UNCHANGED cells_revealed
                   ELSE LET st == RevealRecursive(rows, cols, M, B,
                                      [cs |-> cell_states,
                                       n  |-> cells_revealed], row, col)
                        IN  /\ cell_states' = st.cs
                            /\ cells_revealed' = st.n
                            /\ game_state' =
                                 IF WinReached(rows, cols, num_mines, st.n)
                                 THEN WON ELSE gs
                            /\ ret' = "True"
reveal_cell(row, col) ==
    /\ UNCHANGED <<rows, cols, num_mines, flags_placed>>
    /\ IF GameOver(game_state)
       THEN /\ ret' = "False"
            /\ UNCHANGED <<board, cell_states, mines, game_state,
                           cells_revealed, first_click>>
       ELSE IF ~InBounds(rows, cols, row, col)
       THEN /\ ret' = "True"
            /\ UNCHANGED <<board, cell_states, mines, game_state,
                           cells_revealed, first_click>>
       ELSE IF first_click /\ SampleMines(rows, cols, num_mines, row, col) = {}
       THEN \* random.sample raises ValueError out of reveal_cell
            /\ ret' = "ValueError"
            /\ UNCHANGED <<board, cell_states, mines, game_state,
                           cells_revealed, first_click>>
       ELSE \E M \in (IF first_click
                      THEN SampleMines(rows, cols, num_mines, row, col)
                      ELSE {mines}) :
            LET B  == IF first_click
                      THEN CalculateNumbers(rows, cols, M, board)
                      ELSE board
                gs == IF first_click THEN PLAYING ELSE game_state
            IN  /\ mines' = M
                /\ board' = B
                /\ first_click' = FALSE
                /\ IF ~CanReveal(cell_states, row, col)
                   THEN /\ ret' = "True"
                        /\ game_state' = gs
                        /\ UNCHANGED <<cell_states, cells_revealed>>
                   ELSE IF <<row, col>> \in M
                   THEN /\ cell_states' =
                              [cell_states EXCEPT ![<<row, col>>] = REVEALED]
                        /\ game_state' = LOST
                        /\ ret' = "False"
                        /\ UNCHANGED cells_revealed
                   ELSE LET st == RevealRecursive(rows, cols, M, B,
                                      [cs |-> cell_states,
                                       n  |-> cells_revealed], row, col)
                        IN  /\ cell_states' = st.cs
                            /\ cells_revealed' = st.n
                            /\ game_state' =
                                 IF WinReached(rows, cols, num_mines, st.n)
                                 THEN WON ELSE gs
                            /\ ret' = "True"

(***************************************************************************)
(* Minesweeper.toggle_flag(row, col)                                       *)
(***************************************************************************)
\* fault: every cell that is not FLAGGED is flagged, a REVEALED one too
toggle_flag_flags_revealed(row, col) ==
    /\ UNCHANGED <<ret, rows, cols, num_mines, board, mines, game_state,
                   cells_revealed, first_click>>
    /\ IF GameOver(game_state)
       THEN UNCHANGED <<cell_states, flags_placed>>
       ELSE IF ~InBounds(rows, cols, row, col)
       THEN UNCHANGED <<cell_states, flags_placed>>
       ELSE IF cell_states[<<row, col>>] # FLAGGED
       THEN /\ cell_states' = [cell_states EXCEPT ![<<row, col>>] = FLAGGED]
            /\ flags_placed' = flags_placed + 1
       ELSE /\ cell_states' = [cell_states EXCEPT ![<<row, col>>] = HIDDEN]
            /\ flags_placed' = flags_placed - 1

\* fault: removing a flag does not decrement flags_placed
toggle_flag_no_decrement(row, col) ==
    /\ UNCHANGED <<ret, rows, cols, num_mines, board, mines, game_state,
                   cells_revealed, first_click>>
    /\ IF GameOver(game_state)
       THEN UNCHANGED <<cell_states, flags_placed>>
       ELSE IF ~InBounds(rows, cols, row, col)
       THEN UNCHANGED <<cell_states, flags_placed>>
       ELSE IF cell_states[<<row, col>>] = REVEALED
       THEN UNCHANGED <<cell_states, flags_placed>>
       ELSE IF cell_states[<<row, col>>] = HIDDEN
       THEN /\ cell_states' = [cell_states EXCEPT ![<<row, col>>] = FLAGGED]
            /\ flags_placed' = flags_placed + 1
       ELSE /\ cell_states' = [cell_states EXCEPT ![<<row, col>>] = HIDDEN]
            /\ UNCHANGED flags_placed

toggle_flag(row, col) ==
    /\ UNCHANGED <<ret, rows, cols, num_mines, board, mines, game_state,
                   cells_revealed, first_click>>
    /\ IF GameOver(game_state)
       THEN UNCHANGED <<cell_states, flags_placed>>
       ELSE IF ~InBounds(rows, cols, row, col)
       THEN UNCHANGED <<cell_states, flags_placed>>
       ELSE IF cell_states[<<row, col>>] = REVEALED
       THEN UNCHANGED <<cell_states, flags_placed>>
       ELSE IF cell_states[<<row, col>>] = HIDDEN
       THEN /\ cell_states' = [cell_states EXCEPT ![<<row, col>>] = FLAGGED]
            /\ flags_placed' = flags_placed + 1
       ELSE /\ cell_states' = [cell_states EXCEPT ![<<row, col>>] = HIDDEN]
            /\ flags_placed' = flags_placed - 1

(***************************************************************************)
(* Minesweeper.reset(difficulty), difficulty a preset or None              *)
(***************************************************************************)
reset(difficulty) ==
    /\ ret' = None
    /\ Fresh(IF difficulty # NoDifficulty THEN difficulty
             ELSE <<rows, cols, num_mines>>)

(***************************************************************************)
(* The callers.  A call names any cell of the board, or a place beyond     *)
(* it: one past each side and one past two opposite corners.               *)
(***************************************************************************)
Rows    == -1 .. rows
Cols    == -1 .. cols
Beyond  == { <<-1, 0>>, <<0, -1>>, <<rows, 0>>, <<0, cols>>,
             <<-1, -1>>, <<rows, cols>> }
Targets == Cells(rows, cols) \cup Beyond

RevealCall ==
    \E row \in Rows, col \in Cols :
        /\ <<row, col>> \in Targets
        /\ reveal_cell(row, col)
        /\ mine_targeted' =
             (mine_targeted \/ (/\ game_state \in {READY, PLAYING}
                                /\ <<row, col>> \in mines'))
        /\ hidden_mine_hit' =
             (hidden_mine_hit \/ (/\ game_state \in {READY, PLAYING}
                                  /\ InBounds(rows, cols, row, col)
                                  /\ cell_states[<<row, col>>] = HIDDEN
                                  /\ <<row, col>> \in mines'))
        /\ found' = NoResult
        /\ UNCHANGED <<last_call, knowledge_base, leaderboard, demo>>

FlagCall ==
    \E row \in Rows, col \in Cols :
        /\ <<row, col>> \in Targets
        /\ (/\ game_state \in {READY, PLAYING}
            /\ InBounds(rows, cols, row, col)
            /\ cell_states[<<row, col>>] = HIDDEN) => flags_placed < MaxFlags
        /\ toggle_flag(row, col)
        /\ found' = NoResult
        /\ UNCHANGED <<mine_targeted, hidden_mine_hit, last_call,
                       knowledge_base, leaderboard, demo>>

ResetCall ==
    \E difficulty \in Difficulty \cup {NoDifficulty} :
        /\ reset(difficulty)
        /\ mine_targeted' = FALSE
        /\ hidden_mine_hit' = FALSE
        /\ found' = NoResult
        /\ UNCHANGED <<last_call, knowledge_base, leaderboard, demo>>

Next == RevealCall \/ FlagCall \/ ResetCall

Spec == Init /\ [][Next]_vars

(***************************************************************************)
(* Boards built from size triples other than the three presets (the        *)
(* constructor and reset take any object with a .value): triples so tight  *)
(* that, for some first clicks, fewer than num_mines cells are left        *)
(* outside the excluded zone, and random.sample raises.                    *)
(*   <<1, 3, 1>>  a click on an end leaves 1 cell, one in the middle 0     *)
(*   <<1, 4, 2>>  a click on an end leaves 2 cells, an inner one 1         *)
(*   <<2, 2, 1>>  every click leaves 0 cells                               *)
(*   BEGINNER     every click leaves at least num_mines cells              *)
(***************************************************************************)
TightBoards == { <<1, 3, 1>>, <<1, 4, 2>>, <<2, 2, 1>>, BEGINNER }

InitTight ==
    \E d \in TightBoards :
        /\ rows = d[1] /\ cols = d[2] /\ num_mines = d[3]
        /\ board = [p \in Cells(d[1], d[2]) |-> 0]
        /\ cell_states = [p \in Cells(d[1], d[2]) |-> HIDDEN]
        /\ mines = {}
        /\ game_state = READY
        /\ flags_placed = 0
        /\ cells_revealed = 0
        /\ first_click = TRUE
        /\ ret = None
        /\ mine_targeted = FALSE /\ hidden_mine_hit = FALSE
        /\ last_call = NoCall
        /\ found = NoResult
        /\ knowledge_base = << >>
        /\ Idle

TightReset ==
    \E difficulty \in TightBoards \cup {NoDifficulty} :
        /\ reset(difficulty)
        /\ mine_targeted' = FALSE
        /\ hidden_mine_hit' = FALSE
        /\ found' = NoResult
        /\ UNCHANGED <<last_call, knowledge_base, leaderboard, demo>>

NextTight == RevealCall \/ FlagCall \/ TightReset

SpecTight == InitTight /\ [][NextTight]_vars

(***************************************************************************)
(* The same board with the history of its calls kept in last_call.         *)
(***************************************************************************)
CallsReveal ==
    \E row \in Rows, col \in Cols :
        /\ <<row, col>> \in Targets
        /\ reveal_cell(row, col)
        /\ last_call' = NoCall
        /\ UNCHANGED <<mine_targeted, hidden_mine_hit, found,
                       knowledge_base, leaderboard, demo>>

CallsFlag ==
    \E row \in Rows, col \in Cols :
        /\ <<row, col>> \in Targets
        /\ (/\ game_state \in {READY, PLAYING}
            /\ InBounds(rows, cols, row, col)
            /\ cell_states[<<row, col>>] = HIDDEN) => flags_placed < MaxFlags
        /\ toggle_flag(row, col)
        /\ last_call' =
             IF /\ last_call.op = "toggle_flag"
                /\ last_call.times = 1
                /\ last_call.at = <<row, col>>
             THEN [last_call EXCEPT !.times = 2, !.from = game_state]
             ELSE IF /\ InBounds(rows, cols, row, col)
                     /\ cell_states[<<row, col>>] = HIDDEN
             THEN [op |-> "toggle_flag", at |-> <<row, col>>, times |-> 1,
                   before |-> game, from |-> game_state]
             ELSE NoCall
        /\ UNCHANGED <<mine_targeted, hidden_mine_hit, found,
                       knowledge_base, leaderboard, demo>>

CallsReset ==
    \E difficulty \in Difficulty \cup {NoDifficulty} :
        /\ reset(difficulty)
        /\ last_call' = [op |-> "reset", at |-> difficulty, times |-> 0,
                         before |-> << >>, from |-> game_state]
        /\ UNCHANGED <<mine_targeted, hidden_mine_hit, found,
                       knowledge_base, leaderboard, demo>>

NextCalls == CallsReveal \/ CallsFlag \/ CallsReset

SpecCalls == Init /\ [][NextCalls]_vars

(***************************************************************************)
(* PatternAgent (src/ai/pattern_agent.py): the constraint pass.  The agent *)
(* holds the board (self.game) and reads it through get_cell_state and     *)
(* get_cell_value; R, C, B, cs stand for self.game.rows, self.game.cols,   *)
(* self.game.board and self.game.cell_states.  Python lists are sequences. *)
(***************************************************************************)
\* the pairs (dr, dc) in the order of the two loops of _get_neighbors
Offsets == << <<-1, -1>>, <<-1, 0>>, <<-1, 1>>, <<0, -1>>, <<0, 1>>,
              <<1, -1>>, <<1, 0>>, <<1, 1>> >>

\* PatternAgent._get_neighbors: the list of the neighbours on the board
AgentGetNeighbors(R, C, row, col) ==
    SelectSeq([i \in 1 .. Len(Offsets) |->
                 <<row + Offsets[i][1], col + Offsets[i][2]>>],
              LAMBDA n : InBounds(R, C, n[1], n[2]))

IsRevealed(cs, row, col) == cs[<<row, col>>] = REVEALED
IsHidden(cs, row, col)   == cs[<<row, col>>] = HIDDEN
IsFlagged(cs, row, col)  == cs[<<row, col>>] = FLAGGED

\* fault: the flagged neighbours are not subtracted
GetEffectiveValueNoFlags(R, C, B, cs, row, col) ==
    IF ~IsRevealed(cs, row, col) THEN 0 ELSE B[<<row, col>>]
\* PatternAgent._get_effective_value
GetEffectiveValue(R, C, B, cs, row, col) ==
    IF ~IsRevealed(cs, row, col) THEN 0
    ELSE LET base_value    == B[<<row, col>>]
             flagged_count == Len(SelectSeq(AgentGetNeighbors(R, C, row, col),
                                    LAMBDA n : IsFlagged(cs, n[1], n[2])))
         IN  base_value - flagged_count

\* hidden_neighbors = [n for n in neighbors if self._is_hidden(n[0], n[1])]
HiddenNeighbors(R, C, cs, row, col) ==
    SelectSeq(AgentGetNeighbors(R, C, row, col),
              LAMBDA n : IsHidden(cs, n[1], n[2]))

\* list(set(l)): the elements of l, each once (in an order of Python's
\* choosing; here, one fixed order)
RECURSIVE ListOfSet(_)
ListOfSet(S) ==
    IF S = {} THEN << >>
    ELSE LET x == CHOOSE y \in S : TRUE IN <<x>> \o ListOfSet(S \ {x})
ListSet(l) == ListOfSet({ l[i] : i \in DOMAIN l })

\* fault: at least as many hidden neighbours as mines left
AllHiddenAreMinesLoose(hidden_neighbors, effective_value) ==
    Len(hidden_neighbors) >= effective_value /\ effective_value > 0
\* find_certain_mines: len(hidden_neighbors) == effective_value > 0
AllHiddenAreMines(hidden_neighbors, effective_value) ==
    Len(hidden_neighbors) = effective_value /\ effective_value > 0

\* fault: an effective value below 0 counts as 0
AllHiddenAreSafeLoose(hidden_neighbors, effective_value) ==
    effective_value <= 0 /\ hidden_neighbors # << >>
\* find_certain_safe: effective_value == 0 and hidden_neighbors
AllHiddenAreSafe(hidden_neighbors, effective_value) ==
    effective_value = 0 /\ hidden_neighbors # << >>

\* the two loops of find_certain_mines, from cell number k (row-major) on:
\* the list mines they build
RECURSIVE FindCertainMinesLoop(_, _, _, _, _)
FindCertainMinesLoop(R, C, B, cs, k) ==
    IF k >= R * C THEN << >>
    ELSE LET row == k \div C
             col == k % C
             hidden_neighbors == HiddenNeighbors(R, C, cs, row, col)
             effective_value  == GetEffectiveValue(R, C, B, cs, row, col)
             more == IF ~IsRevealed(cs, row, col) THEN << >>
                     ELSE IF AllHiddenAreMines(hidden_neighbors,
                                               effective_value)
                     THEN hidden_neighbors
                     ELSE << >>
         IN  more \o FindCertainMinesLoop(R, C, B, cs, k + 1)

\* PatternAgent.find_certain_mines
find_certain_mines(R, C, B, cs) ==
    ListSet(FindCertainMinesLoop(R, C, B, cs, 0))

\* the two loops of find_certain_safe, from cell number k on
RECURSIVE FindCertainSafeLoop(_, _, _, _, _)
FindCertainSafeLoop(R, C, B, cs, k) ==
    IF k >= R * C THEN << >>
    ELSE LET row == k \div C
             col == k % C
             hidden_neighbors == HiddenNeighbors(R, C, cs, row, col)
             effective_value  == GetEffectiveValue(R, C, B, cs, row, col)
             more == IF ~IsRevealed(cs, row, col) THEN << >>
                     ELSE IF AllHiddenAreSafe(hidden_neighbors,
                                              effective_value)
                     THEN hidden_neighbors
                     ELSE << >>
         IN  more \o FindCertainSafeLoop(R, C, B, cs, k + 1)

\* PatternAgent.find_certain_safe
find_certain_safe(R, C, B, cs) ==
    ListSet(FindCertainSafeLoop(R, C, B, cs, 0))

(***************************************************************************)
(* PatternAgent: the wall and edge patterns.  The loops build their lists  *)
(* cell by cell: what one pass of a loop body appends is an operator of    *)
(* the cell, and the list is the concatenation over the cells in loop      *)
(* order.  The pattern checks index the grid at rows 0, 1, rows - 2 and    *)
(* columns 0, 1, cols - 2 whatever the size: they are modelled for boards  *)
(* of two rows and two columns at least, as every Difficulty has.          *)
(***************************************************************************)
\* for row in range(nr): for col in range(nc): the cells in loop order
RangeCells(nr, nc) ==
    IF nr <= 0 \/ nc <= 0 THEN << >>
    ELSE [k \in 1 .. nr * nc |-> <<(k - 1) \div nc, (k - 1) % nc>>]

\* the list built by extending with each list of ss in turn
RECURSIVE Flatten(_)
Flatten(ss) ==
    IF Len(ss) = 0 THEN << >> ELSE Head(ss) \o Flatten(Tail(ss))

\* fault: a 1 and a 2 on any row (column)
Is12AnyLine(val1, val2, line, wall) == val1 = 1 /\ val2 = 2
\* val1 == 1 and val2 == 2 and row == <wall row> (col == <wall column>)
Is12At(val1, val2, line, wall) == val1 = 1 /\ val2 = 2 /\ line = wall

\* check_1_2_pattern, body of the horizontal loop at (row, col): what it
\* appends to mines and to safe
Check12Row(R, C, B, cs, row, col) ==
    IF IsRevealed(cs, row, col) /\ IsRevealed(cs, row, col + 1)
    THEN LET val1 == GetEffectiveValue(R, C, B, cs, row, col)
             val2 == GetEffectiveValue(R, C, B, cs, row, col + 1)
             safe_here == IF col > 0 /\ IsHidden(cs, row, col - 1)
                          THEN << <<row, col - 1>> >> ELSE << >>
             mine_here == IF col + 2 < C /\ IsHidden(cs, row, col + 2)
                          THEN << <<row, col + 2>> >> ELSE << >>
             bottom == Is12At(val1, val2, row, R - 1)
             top    == Is12At(val1, val2, row, 0)
         IN  [mines |-> (IF bottom THEN mine_here ELSE << >>)
                        \o (IF top THEN mine_here ELSE << >>),
              safe  |-> (IF bottom THEN safe_here ELSE << >>)
                        \o (IF top THEN safe_here ELSE << >>)]
    ELSE [mines |-> << >>, safe |-> << >>]

\* check_1_2_pattern, body of the vertical loop at (row, col)
Check12Col(R, C, B, cs, row, col) ==
    IF IsRevealed(cs, row, col) /\ IsRevealed(cs, row + 1, col)
    THEN LET val1 == GetEffectiveValue(R, C, B, cs, row, col)
             val2 == GetEffectiveValue(R, C, B, cs, row + 1, col)
             safe_here == IF row > 0 /\ IsHidden(cs, row - 1, col)
                          THEN << <<row - 1, col>> >> ELSE << >>
             mine_here == IF row + 2 < R /\ IsHidden(cs, row + 2, col)
                          THEN << <<row + 2, col>> >> ELSE << >>
             left  == Is12At(val1, val2, col, 0)
             right == Is12At(val1, val2, col, C - 1)
         IN  [mines |-> (IF left THEN mine_here ELSE << >>)
                        \o (IF right THEN mine_here ELSE << >>),
              safe  |-> (IF left THEN safe_here ELSE << >>)
                        \o (IF right THEN safe_here ELSE << >>)]
    ELSE [mines |-> << >>, safe |-> << >>]

\* PatternAgent.check_1_2_pattern: the pair (mines, safe)
check_1_2_pattern(R, C, B, cs) ==
    LET h  == RangeCells(R, C - 1)
        v  == RangeCells(R - 1, C)
        hr == [k \in DOMAIN h |-> Check12Row(R, C, B, cs, h[k][1], h[k][2])]
        vr == [k \in DOMAIN v |-> Check12Col(R, C, B, cs, v[k][1], v[k][2])]
        mines_list == Flatten([k \in DOMAIN hr |-> hr[k].mines])
                        \o Flatten([k \in DOMAIN vr |-> vr[k].mines])
        safe_list  == Flatten([k \in DOMAIN hr |-> hr[k].safe])
                        \o Flatten([k \in DOMAIN vr |-> vr[k].safe])
    IN  <<ListSet(mines_list), ListSet(safe_list)>>

\* fault: a 2 between two numbers
Is121MiddleOnly(vals) == vals[2] = 2 /\ vals[1] > 0 /\ vals[3] > 0
\* vals == [1, 2, 1]
Is121(vals) == vals = <<1, 2, 1>>

\* check_1_2_1_pattern, body of the horizontal loop at (row, col): what it
\* appends to mines
Check121Row(R, C, B, cs, row, col) ==
    IF /\ IsRevealed(cs, row, col)
       /\ IsRevealed(cs, row, col + 1)
       /\ IsRevealed(cs, row, col + 2)
    THEN LET vals == <<GetEffectiveValue(R, C, B, cs, row, col),
                       GetEffectiveValue(R, C, B, cs, row, col + 1),
                       GetEffectiveValue(R, C, B, cs, row, col + 2)>>
         IN  IF ~Is121(vals) THEN << >>
             ELSE IF row = 0
             THEN IF row + 1 < R
                  THEN (IF IsHidden(cs, row + 1, col)
                        THEN << <<row + 1, col>> >> ELSE << >>)
                       \o (IF IsHidden(cs, row + 1, col + 2)
                           THEN << <<row + 1, col + 2>> >> ELSE << >>)
                  ELSE << >>
             ELSE IF row = R - 1
             THEN IF row - 1 >= 0
                  THEN (IF IsHidden(cs, row - 1, col)
                        THEN << <<row - 1, col>> >> ELSE << >>)
                       \o (IF IsHidden(cs, row - 1, col + 2)
                           THEN << <<row - 1, col + 2>> >> ELSE << >>)
                  ELSE << >>
             ELSE << >>
    ELSE << >>

\* check_1_2_1_pattern, body of the vertical loop at (row, col)
Check121Col(R, C, B, cs, row, col) ==
    IF /\ IsRevealed(cs, row, col)
       /\ IsRevealed(cs, row + 1, col)
       /\ IsRevealed(cs, row + 2, col)
    THEN LET vals == <<GetEffectiveValue(R, C, B, cs, row, col),
                       GetEffectiveValue(R, C, B, cs, row + 1, col),
                       GetEffectiveValue(R, C, B, cs, row + 2, col)>>
         IN  IF ~Is121(vals) THEN << >>
             ELSE IF col = 0
             THEN IF col + 1 < C
                  THEN (IF IsHidden(cs, row, col + 1)
                        THEN << <<row, col + 1>> >> ELSE << >>)
                       \o (IF IsHidden(cs, row + 2, col + 1)
                           THEN << <<row + 2, col + 1>> >> ELSE << >>)
                  ELSE << >>
             ELSE IF col = C - 1
             THEN IF col - 1 >= 0
                  THEN (IF IsHidden(cs, row, col - 1)
                        THEN << <<row, col - 1>> >> ELSE << >>)
                       \o (IF IsHidden(cs, row + 2, col - 1)
                           THEN << <<row + 2, col - 1>> >> ELSE << >>)
                  ELSE << >>
             ELSE << >>
    ELSE << >>

\* PatternAgent.check_1_2_1_pattern
check_1_2_1_pattern(R, C, B, cs) ==
    LET h == RangeCells(R, C - 2)
        v == RangeCells(R - 2, C)
    IN  ListSet(Flatten([k \in DOMAIN h |->
                           Check121Row(R, C, B, cs, h[k][1], h[k][2])])
                \o Flatten([k \in DOMAIN v |->
                              Check121Col(R, C, B, cs, v[k][1], v[k][2])]))

\* fault: the cell next to the edge cell may hold any number
Is11EdgeOnly(edge_value, next_value) == edge_value = 1 /\ next_value > 0
\* both effective values == 1
Is11(edge_value, next_value) == edge_value = 1 /\ next_value = 1

\* check_1_1_pattern, one pass of the loop "Horizontal from left edge"
Check11Left(R, C, B, cs, row) ==
    IF /\ IsRevealed(cs, row, 0)
       /\ IsRevealed(cs, row, 1)
       /\ Is11(GetEffectiveValue(R, C, B, cs, row, 0),
               GetEffectiveValue(R, C, B, cs, row, 1))
    THEN IF 2 < C /\ IsHidden(cs, row, 2)
         THEN << <<row, 2>> >> ELSE << >>
    ELSE << >>

\* one pass of the loop "Horizontal from right edge"
Check11Right(R, C, B, cs, row) ==
    IF /\ IsRevealed(cs, row, C - 1)
       /\ IsRevealed(cs, row, C - 2)
       /\ Is11(GetEffectiveValue(R, C, B, cs, row, C - 1),
               GetEffectiveValue(R, C, B, cs, row, C - 2))
    THEN IF C - 3 >= 0 /\ IsHidden(cs, row, C - 3)
         THEN << <<row, C - 3>> >> ELSE << >>
    ELSE << >>

\* one pass of the loop "Vertical from top edge"
Check11Top(R, C, B, cs, col) ==
    IF /\ IsRevealed(cs, 0, col)
       /\ IsRevealed(cs, 1, col)
       /\ Is11(GetEffectiveValue(R, C, B, cs, 0, col),
               GetEffectiveValue(R, C, B, cs, 1, col))
    THEN IF 2 < R /\ IsHidden(cs, 2, col)
         THEN << <<2, col>> >> ELSE << >>
    ELSE << >>

\* one pass of the loop "Vertical from bottom edge"
Check11Bottom(R, C, B, cs, col) ==
    IF /\ IsRevealed(cs, R - 1, col)
       /\ IsRevealed(cs, R - 2, col)
       /\ Is11(GetEffectiveValue(R, C, B, cs, R - 1, col),
               GetEffectiveValue(R, C, B, cs, R - 2, col))
    THEN IF R - 3 >= 0 /\ IsHidden(cs, R - 3, col)
         THEN << <<R - 3, col>> >> ELSE << >>
    ELSE << >>

\* PatternAgent.check_1_1_pattern
check_1_1_pattern(R, C, B, cs) ==
    ListSet(Flatten([i \in 1 .. R |-> Check11Left(R, C, B, cs, i - 1)])
            \o Flatten([i \in 1 .. R |-> Check11Right(R, C, B, cs, i - 1)])
            \o Flatten([i \in 1 .. C |-> Check11Top(R, C, B, cs, i - 1)])
            \o Flatten([i \in 1 .. C |-> Check11Bottom(R, C, B, cs, i - 1)]))

(***************************************************************************)
(* choose_action.  An action is the tuple (kind, row, col); NoAction is    *)
(* the return value None.  list(set(...)) leaves the order of a list to    *)
(* Python and random.choice picks any element, so choose_action is         *)
(* modelled by the set of the values a call may return.  A step of         *)
(* choose_action is a record: returns, the values the step may return,     *)
(* and falls, whether control may pass on to the next step.                *)
(***************************************************************************)
NoAction  == <<None>>
Flag(p)   == <<"flag", p[1], p[2]>>
Reveal(p) == <<"reveal", p[1], p[2]>>

\* the values l[0] may take when the order of l is Python's choice, and
\* the values random.choice(l) may take
FirstOf(l) == { l[i] : i \in DOMAIN l }

\* a step followed by the rest of the function: the step's values, then
\* those of the rest if the step may fall through
Then(step, rest) ==
    step.returns \cup (IF step.falls THEN rest ELSE {})

\* for row, col in l: if self._is_hidden(row, col): return ('flag', row, col)
FlagFirstHidden(cs, l) ==
    LET hidden == SelectSeq(l, LAMBDA p : IsHidden(cs, p[1], p[2]))
    IN  [returns |-> { Flag(p) : p \in FirstOf(hidden) },
         falls   |-> hidden = << >>]

\* if l: row, col = l[0]; return ('reveal', row, col)
RevealFirst(l) ==
    [returns |-> { Reveal(p) : p \in FirstOf(l) }, falls |-> l = << >>]

\* if l: row, col = l[0]; if self._is_hidden(row, col): return (...)
RevealFirstIfHidden(cs, l) ==
    [returns |-> { Reveal(p) : p \in { q \in FirstOf(l) :
                                         IsHidden(cs, q[1], q[2]) } },
     falls   |-> \/ l = << >>
                 \/ \E q \in FirstOf(l) : ~IsHidden(cs, q[1], q[2])]

\* fault: every cell of the board counts as hidden
HiddenCellsAll(R, C, cs) == RangeCells(R, C)
\* hidden_cells, in row-major order
HiddenCells(R, C, cs) ==
    SelectSeq(RangeCells(R, C), LAMBDA p : IsHidden(cs, p[1], p[2]))

\* revealed_count of a hidden cell
RevealedCount(R, C, cs, row, col) ==
    Len(SelectSeq(AgentGetNeighbors(R, C, row, col),
                  LAMBDA n : IsRevealed(cs, n[1], n[2])))

\* fault: a cell that ties the best so far replaces it
BeatsOrTies(revealed_count, max_revealed) == revealed_count >= max_revealed
\* revealed_count > max_revealed
Beats(revealed_count, max_revealed) == revealed_count > max_revealed

\* the loop over hidden_cells that keeps best_cell and max_revealed
RECURSIVE BestCellLoop(_, _, _, _, _)
BestCellLoop(R, C, cs, cells_left, sofar) ==
    IF Len(cells_left) = 0 THEN sofar
    ELSE LET cell == Head(cells_left)
             revealed_count == RevealedCount(R, C, cs, cell[1], cell[2])
         IN  BestCellLoop(R, C, cs, Tail(cells_left),
                          IF Beats(revealed_count, sofar.max_revealed)
                          THEN [best_cell    |-> cell,
                                max_revealed |-> revealed_count]
                          ELSE sofar)

\* best_cell = None, max_revealed = -1
NoBest == [best_cell |-> << >>, max_revealed |-> -1]

\* the four corners, in the order of the list corners
Corners(R, C) ==
    << <<0, 0>>, <<0, C - 1>>, <<R - 1, 0>>, <<R - 1, C - 1>> >>

\* PatternAgent._make_educated_guess: the values it may return
make_educated_guess(R, C, cs) ==
    LET hidden_cells == HiddenCells(R, C, cs)
        best         == BestCellLoop(R, C, cs, hidden_cells, NoBest)
        hidden_corners == SelectSeq(Corners(R, C),
                                    LAMBDA c : c \in FirstOf(hidden_cells))
    IN  IF hidden_cells = << >> THEN {NoAction}
        ELSE IF best.max_revealed = 0
        THEN IF hidden_corners # << >>
             THEN {Reveal(Head(hidden_corners))}
             ELSE { Reveal(p) : p \in FirstOf(hidden_cells) }
        ELSE {Reveal(best.best_cell)}

\* fault: certain-safe cells are revealed before certain mines are flagged
PatternAgent_choose_action_safe_first(R, C, B, cs) ==
    LET pattern_1_2 == check_1_2_pattern(R, C, B, cs)
    IN  Then(RevealFirst(find_certain_safe(R, C, B, cs)),
        Then(FlagFirstHidden(cs, find_certain_mines(R, C, B, cs)),
        Then(FlagFirstHidden(cs, check_1_2_1_pattern(R, C, B, cs)),
        Then(FlagFirstHidden(cs, pattern_1_2[1]),
        Then(RevealFirstIfHidden(cs, pattern_1_2[2]),
        Then(RevealFirst(check_1_1_pattern(R, C, B, cs)),
             make_educated_guess(R, C, cs)))))))
\* PatternAgent.choose_action: the values it may return
PatternAgent_choose_action(R, C, B, cs) ==
    LET pattern_1_2 == check_1_2_pattern(R, C, B, cs)
    IN  Then(FlagFirstHidden(cs, find_certain_mines(R, C, B, cs)),
        Then(RevealFirst(find_certain_safe(R, C, B, cs)),
        Then(FlagFirstHidden(cs, check_1_2_1_pattern(R, C, B, cs)),
        Then(FlagFirstHidden(cs, pattern_1_2[1]),
        Then(RevealFirstIfHidden(cs, pattern_1_2[2]),
        Then(RevealFirst(check_1_1_pattern(R, C, B, cs)),
             make_educated_guess(R, C, cs)))))))

\* PatternAgent.calculate_statistics; progress is the quotient
\* revealed_cells * 100 / (total_cells - num_mines), kept as the pair of
\* its terms, and the division raises when they are equal
calculate_statistics(R, C, N, cs) ==
    LET total_cells    == R * C
        revealed_cells == Cardinality({ p \in Cells(R, C) :
                                          IsRevealed(cs, p[1], p[2]) })
        flagged_cells  == Cardinality({ p \in Cells(R, C) :
                                          IsFlagged(cs, p[1], p[2]) })
    IN  IF total_cells = N THEN <<"ZeroDivisionError">>
        ELSE << [total_cells    |-> total_cells,
                 revealed_cells |-> revealed_cells,
                 flagged_cells  |-> flagged_cells,
                 progress       |-> <<revealed_cells * 100, total_cells - N>>,
                 flags_correct  |-> flagged_cells <= N] >>

(***************************************************************************)
(* MinesweeperAgent and RandomAgent (src/ai/agent.py).  Their              *)
(* _get_neighbors is the code of PatternAgent's.                           *)
(***************************************************************************)
\* fault: the flagged neighbours are not counted
GetMineCellsAtNoFlags(R, C, B, cs, row, col) ==
    IF cs[<<row, col>>] # REVEALED THEN << >>
    ELSE LET neighbors == AgentGetNeighbors(R, C, row, col)
             hidden_neighbors ==
                 SelectSeq(neighbors, LAMBDA n : cs[n] = HIDDEN)
             cell_value == B[<<row, col>>]
         IN  IF /\ Len(hidden_neighbors) = cell_value
                /\ hidden_neighbors # << >>
             THEN hidden_neighbors ELSE << >>
\* get_mine_cells, body of the loops at (row, col): what it appends
GetMineCellsAt(R, C, B, cs, row, col) ==
    IF cs[<<row, col>>] # REVEALED THEN << >>
    ELSE LET neighbors == AgentGetNeighbors(R, C, row, col)
             hidden_neighbors ==
                 SelectSeq(neighbors, LAMBDA n : cs[n] = HIDDEN)
             flagged_neighbors ==
                 SelectSeq(neighbors, LAMBDA n : cs[n] = FLAGGED)
             cell_value == B[<<row, col>>]
         IN  IF /\ Len(hidden_neighbors) + Len(flagged_neighbors)
                     = cell_value
                /\ hidden_neighbors # << >>
             THEN hidden_neighbors ELSE << >>

\* MinesweeperAgent.get_mine_cells
get_mine_cells(R, C, B, cs) ==
    LET a == RangeCells(R, C)
    IN  ListSet(Flatten([k \in DOMAIN a |->
                           GetMineCellsAt(R, C, B, cs, a[k][1], a[k][2])]))

\* fault: more flags around a number than its value also make the rest safe
GetSafeCellsAtOverFlagged(R, C, B, cs, row, col) ==
    IF cs[<<row, col>>] # REVEALED THEN << >>
    ELSE LET neighbors == AgentGetNeighbors(R, C, row, col)
             hidden_neighbors ==
                 SelectSeq(neighbors, LAMBDA n : cs[n] = HIDDEN)
             flagged_neighbors ==
                 SelectSeq(neighbors, LAMBDA n : cs[n] = FLAGGED)
             cell_value == B[<<row, col>>]
         IN  IF /\ Len(flagged_neighbors) >= cell_value
                /\ hidden_neighbors # << >>
             THEN hidden_neighbors ELSE << >>
\* get_safe_cells, body of the loops at (row, col)
GetSafeCellsAt(R, C, B, cs, row, col) ==
    IF cs[<<row, col>>] # REVEALED THEN << >>
    ELSE LET neighbors == AgentGetNeighbors(R, C, row, col)
             hidden_neighbors ==
                 SelectSeq(neighbors, LAMBDA n : cs[n] = HIDDEN)
             flagged_neighbors ==
                 SelectSeq(neighbors, LAMBDA n : cs[n] = FLAGGED)
             cell_value == B[<<row, col>>]
         IN  IF /\ Len(flagged_neighbors) = cell_value
                /\ hidden_neighbors # << >>
             THEN hidden_neighbors ELSE << >>

\* MinesweeperAgent.get_safe_cells
get_safe_cells(R, C, B, cs) ==
    LET a == RangeCells(R, C)
    IN  ListSet(Flatten([k \in DOMAIN a |->
                           GetSafeCellsAt(R, C, B, cs, a[k][1], a[k][2])]))

\* fault: strategy 3 guesses among the cells that are not REVEALED, the
\* flagged ones too
MinesweeperAgent_guess_unrevealed(R, C, cs) ==
    LET hidden_cells == SelectSeq(RangeCells(R, C),
                                  LAMBDA p : cs[p] # REVEALED)
        best         == BestCellLoop(R, C, cs, hidden_cells, NoBest)
        available_corners == SelectSeq(Corners(R, C),
                                 LAMBDA c : c \in FirstOf(hidden_cells))
    IN  IF hidden_cells = << >> THEN {NoAction}
        ELSE IF best.max_revealed = 0
        THEN IF available_corners # << >>
             THEN { Reveal(p) : p \in FirstOf(available_corners) }
             ELSE { Reveal(p) : p \in FirstOf(hidden_cells) }
        ELSE {Reveal(best.best_cell)}
\* MinesweeperAgent.choose_action, strategy 3: the values it may return
MinesweeperAgent_guess(R, C, cs) ==
    LET hidden_cells == HiddenCells(R, C, cs)
        best         == BestCellLoop(R, C, cs, hidden_cells, NoBest)
        available_corners == SelectSeq(Corners(R, C),
                                 LAMBDA c : c \in FirstOf(hidden_cells))
    IN  IF hidden_cells = << >> THEN {NoAction}
        ELSE IF best.max_revealed = 0
        THEN IF available_corners # << >>
             THEN { Reveal(p) : p \in FirstOf(available_corners) }
             ELSE { Reveal(p) : p \in FirstOf(hidden_cells) }
        ELSE {Reveal(best.best_cell)}

\* MinesweeperAgent.choose_action: the values it may return
MinesweeperAgent_choose_action(R, C, B, cs) ==
    Then(FlagFirstHidden(cs, get_mine_cells(R, C, B, cs)),
    Then(RevealFirst(get_safe_cells(R, C, B, cs)),
         MinesweeperAgent_guess(R, C, cs)))

\* fault: any cell of the board is revealed, hidden or not
RandomAgent_choose_action_any_cell(R, C, cs) ==
    { Reveal(p) : p \in FirstOf(RangeCells(R, C)) }
\* RandomAgent.choose_action: the values it may return
RandomAgent_choose_action(R, C, cs) ==
    LET hidden_cells == HiddenCells(R, C, cs)
    IN  IF hidden_cells # << >>
        THEN { Reveal(p) : p \in FirstOf(hidden_cells) }
        ELSE {NoAction}

(***************************************************************************)
(* The queries of the agent: found records what the call returned.  They   *)
(* assign no field of the board.                                           *)
(***************************************************************************)
FindCertainMinesCall ==
    /\ found' = [op  |-> "find_certain_mines",
                 out |-> find_certain_mines(rows, cols, board, cell_states)]
    /\ UNCHANGED <<rows, cols, num_mines, board, cell_states, mines,
                   game_state, flags_placed, cells_revealed, first_click,
                   ret, mine_targeted, hidden_mine_hit, last_call,
                   knowledge_base, leaderboard, demo>>

FindCertainSafeCall ==
    /\ found' = [op  |-> "find_certain_safe",
                 out |-> find_certain_safe(rows, cols, board, cell_states)]
    /\ UNCHANGED <<rows, cols, num_mines, board, cell_states, mines,
                   game_state, flags_placed, cells_revealed, first_click,
                   ret, mine_targeted, hidden_mine_hit, last_call,
                   knowledge_base, leaderboard, demo>>

Check12Call ==
    /\ found' = [op  |-> "check_1_2_pattern",
                 out |-> check_1_2_pattern(rows, cols, board, cell_states)]
    /\ UNCHANGED <<rows, cols, num_mines, board, cell_states, mines,
                   game_state, flags_placed, cells_revealed, first_click,
                   ret, mine_targeted, hidden_mine_hit, last_call,
                   knowledge_base, leaderboard, demo>>

Check121Call ==
    /\ found' = [op  |-> "check_1_2_1_pattern",
                 out |-> check_1_2_1_pattern(rows, cols, board, cell_states)]
    /\ UNCHANGED <<rows, cols, num_mines, board, cell_states, mines,
                   game_state, flags_placed, cells_revealed, first_click,
                   ret, mine_targeted, hidden_mine_hit, last_call,
                   knowledge_base, leaderboard, demo>>

Check11Call ==
    /\ found' = [op  |-> "check_1_1_pattern",
                 out |-> check_1_1_pattern(rows, cols, board, cell_states)]
    /\ UNCHANGED <<rows, cols, num_mines, board, cell_states, mines,
                   game_state, flags_placed, cells_revealed, first_click,
                   ret, mine_targeted, hidden_mine_hit, last_call,
                   knowledge_base, leaderboard, demo>>

\* fault: choose_action plays the flag it chooses
PatternChooseCallPlaysFlag ==
    \E a \in PatternAgent_choose_action(rows, cols, board, cell_states) :
        /\ found' = [op |-> "PatternAgent.choose_action", out |-> a]
        /\ IF a[1] = "flag"
           THEN /\ cell_states' =
                     [cell_states EXCEPT ![<<a[2], a[3]>>] = FLAGGED]
                /\ flags_placed' = flags_placed + 1
           ELSE UNCHANGED <<cell_states, flags_placed>>
        /\ UNCHANGED <<rows, cols, num_mines, board, mines, game_state,
                       cells_revealed, first_click, ret, mine_targeted,
                       hidden_mine_hit, last_call,
                       knowledge_base, leaderboard, demo>>
PatternChooseCall ==
    \E a \in PatternAgent_choose_action(rows, cols, board, cell_states) :
        /\ found' = [op |-> "PatternAgent.choose_action", out |-> a]
        /\ UNCHANGED <<rows, cols, num_mines, board, cell_states, mines,
                       game_state, flags_placed, cells_revealed, first_click,
                       ret, mine_targeted, hidden_mine_hit, last_call,
                       knowledge_base, leaderboard, demo>>

BaseChooseCall ==
    \E a \in MinesweeperAgent_choose_action(rows, cols, board, cell_states) :
        /\ found' = [op |-> "MinesweeperAgent.choose_action", out |-> a]
        /\ UNCHANGED <<rows, cols, num_mines, board, cell_states, mines,
                       game_state, flags_placed, cells_revealed, first_click,
                       ret, mine_targeted, hidden_mine_hit, last_call,
                       knowledge_base, leaderboard, demo>>

RandomChooseCall ==
    \E a \in RandomAgent_choose_action(rows, cols, cell_states) :
        /\ found' = [op |-> "RandomAgent.choose_action", out |-> a]
        /\ UNCHANGED <<rows, cols, num_mines, board, cell_states, mines,
                       game_state, flags_placed, cells_revealed, first_click,
                       ret, mine_targeted, hidden_mine_hit, last_call,
                       knowledge_base, leaderboard, demo>>

StatisticsCall ==
    /\ found' = [op  |-> "calculate_statistics",
                 out |-> calculate_statistics(rows, cols, num_mines,
                                              cell_states)]
    /\ UNCHANGED <<rows, cols, num_mines, board, cell_states, mines,
                   game_state, flags_placed, cells_revealed, first_click,
                   ret, mine_targeted, hidden_mine_hit, last_call,
                   knowledge_base, leaderboard, demo>>

(***************************************************************************)
(* The agent on a board in play: the calls on the board and the queries.   *)
(***************************************************************************)
NextPlay ==
    \/ RevealCall
    \/ FlagCall
    \/ ResetCall
    \/ FindCertainMinesCall
    \/ FindCertainSafeCall

SpecPlay == Init /\ [][NextPlay]_vars

(***************************************************************************)
(* The agent as a function of the board it is handed: any mine set on a    *)
(* small board, the numbers that go with it, and any state of the cells    *)
(* (flags on cells that hold no mine, and more flags around a number than  *)
(* its value, included).                                                   *)
(***************************************************************************)
AgentBoards == { <<1, 4>>, <<2, 3>> }

InitAgent ==
    \E d \in AgentBoards :
      \E M \in SUBSET Cells(d[1], d[2]) :
        /\ rows = d[1] /\ cols = d[2] /\ num_mines = Cardinality(M)
        /\ mines = M
        /\ board = CalculateNumbers(d[1], d[2], M,
                                    [p \in Cells(d[1], d[2]) |-> 0])
        /\ cell_states \in [Cells(d[1], d[2]) -> {HIDDEN, REVEALED, FLAGGED}]
        /\ game_state = PLAYING
        /\ flags_placed = Cardinality({ p \in Cells(d[1], d[2]) :
                                          cell_states[p] = FLAGGED })
        /\ cells_revealed = Cardinality({ p \in Cells(d[1], d[2]) \ M :
                                            cell_states[p] = REVEALED })
        /\ first_click = FALSE
        /\ ret = None
        /\ mine_targeted = FALSE /\ hidden_mine_hit = FALSE
        /\ last_call = NoCall
        /\ found = NoResult
        /\ knowledge_base = << >>
        /\ Idle

NextAgent == FindCertainMinesCall \/ FindCertainSafeCall

SpecAgent == InitAgent /\ [][NextAgent]_vars

(***************************************************************************)
(* The constraint pass of MinesweeperAgent on the same boards, beside the  *)
(* one of PatternAgent.                                                    *)
(***************************************************************************)
GetMineCellsCall ==
    /\ found' = [op  |-> "get_mine_cells",
                 out |-> get_mine_cells(rows, cols, board, cell_states)]
    /\ UNCHANGED <<rows, cols, num_mines, board, cell_states, mines,
                   game_state, flags_placed, cells_revealed, first_click,
                   ret, mine_targeted, hidden_mine_hit, last_call,
                   knowledge_base, leaderboard, demo>>

GetSafeCellsCall ==
    /\ found' = [op  |-> "get_safe_cells",
                 out |-> get_safe_cells(rows, cols, board, cell_states)]
    /\ UNCHANGED <<rows, cols, num_mines, board, cell_states, mines,
                   game_state, flags_placed, cells_revealed, first_click,
                   ret, mine_targeted, hidden_mine_hit, last_call,
                   knowledge_base, leaderboard, demo>>

NextPasses == GetMineCellsCall \/ GetSafeCellsCall

SpecPasses == InitAgent /\ [][NextPasses]_vars

(***************************************************************************)
(* The pattern checks on a board in play.  The board has two rows and two  *)
(* mines, the smallest on which a revealed 2 lies on a wall next to a      *)
(* revealed 1; reset keeps the size or takes it again.                     *)
(***************************************************************************)
SolveBoards == { <<2, 4, 2>> }

InitSolve ==
    \E d \in SolveBoards :
        /\ rows = d[1] /\ cols = d[2] /\ num_mines = d[3]
        /\ board = [p \in Cells(d[1], d[2]) |-> 0]
        /\ cell_states = [p \in Cells(d[1], d[2]) |-> HIDDEN]
        /\ mines = {}
        /\ game_state = READY
        /\ flags_placed = 0
        /\ cells_revealed = 0
        /\ first_click = TRUE
        /\ ret = None
        /\ mine_targeted = FALSE /\ hidden_mine_hit = FALSE
        /\ last_call = NoCall
        /\ found = NoResult
        /\ knowledge_base = << >>
        /\ Idle

SolveReset ==
    \E difficulty \in SolveBoards \cup {NoDifficulty} :
        /\ reset(difficulty)
        /\ mine_targeted' = FALSE
        /\ hidden_mine_hit' = FALSE
        /\ found' = NoResult
        /\ UNCHANGED <<last_call, knowledge_base, leaderboard, demo>>

NextSolve ==
    \/ RevealCall
    \/ FlagCall
    \/ SolveReset
    \/ Check12Call
    \/ Check121Call
    \/ Check11Call

SpecSolve == InitSolve /\ [][NextSolve]_vars

(***************************************************************************)
(* The pattern checks and choose_action as functions of the board they are *)
(* handed, over the boards a game can hand them.  Before the first click   *)
(* (READY) the board has no mine and no revealed cell, and any cell may    *)
(* carry a flag.  After it, the mines avoid the clicked cell and its       *)
(* neighbours; the first click may have revealed nothing (a click on a     *)
(* flagged cell) and flags come and go, so any set of cells without a mine *)
(* may be revealed and any other cell flagged, a mine or not.  The game is *)
(* WON when every cell without a mine is revealed, LOST when a mine is.    *)
(* A size is (rows, cols, most mines, most flags, most revealed mines).    *)
(***************************************************************************)
\* the subsets of S of at most k elements
RECURSIVE UpTo(_, _)
UpTo(S, k) ==
    IF k = 0 THEN { {} }
    ELSE UpTo(S, k - 1)
         \cup { X \cup {x} : X \in UpTo(S, k - 1), x \in S }

\* some first click leaves the mines M where they are
SampledBy(R, C, M) ==
    \E c \in Cells(R, C) : M \subseteq AvailableCells(R, C, c[1], c[2])

HandedBoard(R, C, N, M, revealed, hit, flagged) ==
    /\ rows = R /\ cols = C /\ num_mines = N
    /\ mines = M
    /\ board = CalculateNumbers(R, C, M, [p \in Cells(R, C) |-> 0])
    /\ cell_states = [p \in Cells(R, C) |->
                        IF p \in revealed \cup hit THEN REVEALED
                        ELSE IF p \in flagged THEN FLAGGED
                        ELSE HIDDEN]
    /\ game_state = IF M = {} THEN READY
                    ELSE IF hit # {} THEN LOST
                    ELSE IF Cardinality(revealed) = R * C - N THEN WON
                    ELSE PLAYING
    /\ flags_placed = Cardinality(flagged)
    /\ cells_revealed = Cardinality(revealed)
    /\ first_click = (M = {})
    /\ ret = None
    /\ mine_targeted = FALSE /\ hidden_mine_hit = FALSE
    /\ last_call = NoCall
    /\ found = NoResult
    /\ knowledge_base = << >>
    /\ Idle

Handed(sizes) ==
    \E d \in sizes :
      \/ \E flagged \in UpTo(Cells(d[1], d[2]), d[4]) :
            HandedBoard(d[1], d[2], d[3], {}, {}, {}, flagged)
      \/ \E M \in { X \in UpTo(Cells(d[1], d[2]), d[3]) :
                       X # {} /\ SampledBy(d[1], d[2], X) } :
            \E revealed \in SUBSET (Cells(d[1], d[2]) \ M) :
              \E hit \in UpTo(M, d[5]) :
                /\ hit # {} =>
                     Cardinality(revealed) < d[1] * d[2] - Cardinality(M)
                /\ \E flagged \in
                       UpTo(Cells(d[1], d[2]) \ (revealed \cup hit), d[4]) :
                     HandedBoard(d[1], d[2], Cardinality(M), M,
                                 revealed, hit, flagged)

\* walls of five cells and an inner row and column with no flag, walls of
\* four cells with a flag
PatternBoards == { <<2, 5, 2, 0, 0>>, <<5, 2, 2, 0, 0>>, <<3, 3, 2, 0, 0>>,
                   <<2, 4, 3, 1, 0>>, <<4, 2, 3, 1, 0>> }

InitPatterns == Handed(PatternBoards)

NextPatterns == Check12Call \/ Check121Call \/ Check11Call

SpecPatterns == InitPatterns /\ [][NextPatterns]_vars

\* choose_action of the three agents: a small board with every flag, and
\* lost games
ChooseBoards == { <<2, 3, 2, 6, 1>> }

InitChoose == Handed(ChooseBoards)

NextChoose == PatternChooseCall \/ BaseChooseCall \/ RandomChooseCall

SpecChoose == InitChoose /\ [][NextChoose]_vars

\* PatternAgent.choose_action where the patterns decide: a wall of five
\* cells, a wall of four cells with a flag
PriorityBoards == { <<2, 5, 2, 0, 0>>, <<2, 4, 2, 1, 0>> }

InitPriority == Handed(PriorityBoards)

NextPriority == PatternChooseCall

SpecPriority == InitPriority /\ [][NextPriority]_vars

(***************************************************************************)
(* Every query of the agents on a board in play.                           *)
(***************************************************************************)
QueryBoards == { <<2, 3, 1>> }

InitQueries ==
    \E d \in QueryBoards :
        /\ rows = d[1] /\ cols = d[2] /\ num_mines = d[3]
        /\ board = [p \in Cells(d[1], d[2]) |-> 0]
        /\ cell_states = [p \in Cells(d[1], d[2]) |-> HIDDEN]
        /\ mines = {}
        /\ game_state = READY
        /\ flags_placed = 0
        /\ cells_revealed = 0
        /\ first_click = TRUE
        /\ ret = None
        /\ mine_targeted = FALSE /\ hidden_mine_hit = FALSE
        /\ last_call = NoCall
        /\ found = NoResult
        /\ knowledge_base = << >>
        /\ Idle

QueriesReset ==
    \E difficulty \in QueryBoards \cup {NoDifficulty} :
        /\ reset(difficulty)
        /\ mine_targeted' = FALSE
        /\ hidden_mine_hit' = FALSE
        /\ found' = NoResult
        /\ UNCHANGED <<last_call, knowledge_base, leaderboard, demo>>

NextQueries ==
    \/ RevealCall
    \/ FlagCall
    \/ QueriesReset
    \/ FindCertainMinesCall
    \/ FindCertainSafeCall
    \/ Check12Call
    \/ Check121Call
    \/ Check11Call
    \/ PatternChooseCall
    \/ BaseChooseCall
    \/ RandomChooseCall
    \/ StatisticsCall

SpecQueries == InitQueries /\ [][NextQueries]_vars

(***************************************************************************)
(* game/leaderboard.py: the Leaderboard.  An entry is the record of the    *)
(* four fields of LeaderboardEntry; to_dict and from_dict copy the four    *)
(* fields one by one, so the file holds the same records.                  *)
(***************************************************************************)
\* Difficulty.name, the key add_entry files the entry under
NameOf(difficulty) ==
    CASE difficulty = BEGINNER     -> "BEGINNER"
      [] difficulty = INTERMEDIATE -> "INTERMEDIATE"
      [] difficulty = EXPERT       -> "EXPERT"

LeaderboardEntry(difficulty, time, date, player) ==
    [difficulty |-> difficulty, time |-> time, date |-> date,
     player |-> player]

\* LeaderboardEntry.to_dict
to_dict(e) ==
    [difficulty |-> e.difficulty, time |-> e.time, date |-> e.date,
     player |-> e.player]

\* the number of entries kept per difficulty: [:10]
Top == 10

\* list.sort(key=lambda x: x.time) puts e in its place in a sorted list:
\* the sort is stable, e was appended last, so e goes after every entry
\* whose time is not greater
Place(l, e) ==
    LET k == Cardinality({ i \in DOMAIN l : l[i].time <= e.time })
    IN  SubSeq(l, 1, k) \o <<e>> \o SubSeq(l, k + 1, Len(l))

\* list.sort(key=lambda x: x.time): stable, ascending by time
RECURSIVE SortByTime(_)
SortByTime(l) ==
    IF l = << >> THEN << >>
    ELSE Place(SortByTime(SubSeq(l, 1, Len(l) - 1)), l[Len(l)])

\* l[:n]
\* fault: nothing is cut off
FirstAll(l, n) == l
First(l, n) == SubSeq(l, 1, IF Len(l) < n THEN Len(l) ELSE n)

\* the loop of add_entry over enumerate(..., 1): the position of the first
\* entry with the time and the date of the call, None when there is none
Position(l, time, date) ==
    LET hits == { i \in DOMAIN l : l[i].time = time /\ l[i].date = date }
    IN  IF hits = {} THEN None
        ELSE CHOOSE i \in hits : \A j \in hits : i <= j

\* Leaderboard.save: what json.dump writes
Saved(es) == [name \in DOMAIN es |-> [i \in DOMAIN es[name] |->
                                          to_dict(es[name][i])]]

\* Leaderboard.add_entry
add_entry(difficulty, time, date, player) ==
    LET difficulty_name == NameOf(difficulty)
        entry    == LeaderboardEntry(difficulty_name, time, date, player)
        appended == Append(entries[difficulty_name], entry)
        kept     == First(SortByTime(appended), Top)
    IN  /\ entries' = [entries EXCEPT ![difficulty_name] = kept]
        /\ file' = Saved(entries')
        /\ found' = [op |-> "add_entry", out |-> <<Position(kept, time, date)>>]

(***************************************************************************)
(* The calls of add_entry.  time is an int; date is what datetime.now()    *)
(* reads, here the calls fall within one second of the clock; player is    *)
(* the default.  The exploration stops after MaxAdds calls, enough for a   *)
(* list to overflow and to leave room for the other difficulties.          *)
(***************************************************************************)
Times   == {1, 2}
Dates   == {"2026-01-01 10:00:00"}
Players == {"Player"}
MaxAdds == Top + 2

Total(bags) ==
    BagCardinality(bags["BEGINNER"]) + BagCardinality(bags["INTERMEDIATE"])
        + BagCardinality(bags["EXPERT"])

AddEntryCall ==
    /\ Total(added) < MaxAdds
    /\ \E difficulty \in Difficulty, time \in Times, date \in Dates,
          player \in Players :
        /\ add_entry(difficulty, time, date, player)
        /\ added' = [added EXCEPT ![NameOf(difficulty)] =
                         @ (+) SetToBag({time})]
    /\ UNCHANGED <<rows, cols, num_mines, board, cell_states, mines,
                   game_state, flags_placed, cells_revealed, first_click,
                   ret, mine_targeted, hidden_mine_hit, last_call,
                   knowledge_base, demo>>

InitLeaderboard ==
    /\ rows = BEGINNER[1] /\ cols = BEGINNER[2] /\ num_mines = BEGINNER[3]
    /\ board = [p \in Cells(rows, cols) |-> 0]
    /\ cell_states = [p \in Cells(rows, cols) |-> HIDDEN]
    /\ mines = {}
    /\ game_state = READY
    /\ flags_placed = 0
    /\ cells_revealed = 0
    /\ first_click = TRUE
    /\ ret = None
    /\ mine_targeted = FALSE /\ hidden_mine_hit = FALSE
    /\ last_call = NoCall
    /\ found = NoResult
    /\ knowledge_base = << >>
    /\ Idle

NextLeaderboard == AddEntryCall

SpecLeaderboard == InitLeaderboard /\ [][NextLeaderboard]_vars

(***************************************************************************)
(* game/ui.py, MinesweeperUI.run_with_ai: an agent plays the board.        *)
(* ai_demo.py builds the UI for a difficulty and hands its game to one of  *)
(* the three agents.  The boards are scaled down like the presets; each    *)
(* has two rows or more and leaves at least num_mines cells outside the    *)
(* excluded zone of every first click.  RandomAgent, which may reveal any  *)
(* Hidden cell, plays the smallest board only.                             *)
(***************************************************************************)
DemoRuns == { <<"PatternAgent",     <<2, 4, 2>>>>,
              <<"PatternAgent",     <<4, 4, 5>>>>,
              <<"MinesweeperAgent", <<2, 4, 2>>>>,
              <<"MinesweeperAgent", <<3, 4, 3>>>>,
              <<"RandomAgent",      <<2, 4, 2>>>> }

\* agent.choose_action(): the values it may return
ChooseAction(ag) ==
    CASE ag = "PatternAgent" ->
             PatternAgent_choose_action(rows, cols, board, cell_states)
      [] ag = "MinesweeperAgent" ->
             MinesweeperAgent_choose_action(rows, cols, board, cell_states)
      [] ag = "RandomAgent" ->
             RandomAgent_choose_action(rows, cols, cell_states)

\* fault: run_with_ai applies every action as a flag toggle
ApplyAsFlag(action) ==
    LET row == action[2]
        col == action[3]
    IN  /\ toggle_flag(row, col)
        /\ UNCHANGED <<mine_targeted, hidden_mine_hit>>
\* run_with_ai: action_type, row, col = action, and the call on the game
Apply(action) ==
    LET action_type == action[1]
        row         == action[2]
        col         == action[3]
    IN  IF action_type = "reveal"
        THEN /\ reveal_cell(row, col)
             /\ mine_targeted' = (mine_targeted \/ <<row, col>> \in mines')
             /\ hidden_mine_hit' =
                  (hidden_mine_hit \/ (/\ cell_states[<<row, col>>] = HIDDEN
                                       /\ <<row, col>> \in mines'))
        ELSE /\ toggle_flag(row, col)
             /\ UNCHANGED <<mine_targeted, hidden_mine_hit>>

\* run_with_ai: self.game.reset(self.current_difficulty), the board of the
\* same difficulty again
Restart ==
    /\ reset(<<rows, cols, num_mines>>)
    /\ mine_targeted' = FALSE
    /\ hidden_mine_hit' = FALSE
    /\ found' = NoResult
    /\ applied' = 0

\* run_with_ai, "AI makes a move": the game is READY or PLAYING.  The
\* action the agent returns is applied; when it returns None ("No valid
\* action, game might be stuck") the game is reset, as auto_restart does
\* (without auto_restart the loop goes round on the same state).
AgentPlays ==
    /\ game_state \in {READY, PLAYING}
    /\ \E action \in ChooseAction(agent) :
        IF action # NoAction
        THEN /\ Apply(action)
             /\ found' = [op |-> "run_with_ai", out |-> action]
             /\ applied' = applied + 1
        ELSE Restart
    /\ UNCHANGED <<last_call, knowledge_base, leaderboard, agent>>

\* run_with_ai, "Game ended": the game is WON or LOST and is reset, by
\* auto_restart or by the R key
GameEnded ==
    /\ game_state \in {WON, LOST}
    /\ Restart
    /\ UNCHANGED <<last_call, knowledge_base, leaderboard, agent>>

InitDemo ==
    \E run \in DemoRuns :
        LET d == run[2]
        IN  /\ rows = d[1] /\ cols = d[2] /\ num_mines = d[3]
            /\ board = [p \in Cells(d[1], d[2]) |-> 0]
            /\ cell_states = [p \in Cells(d[1], d[2]) |-> HIDDEN]
            /\ mines = {}
            /\ game_state = READY
            /\ flags_placed = 0
            /\ cells_revealed = 0
            /\ first_click = TRUE
            /\ ret = None
            /\ mine_targeted = FALSE /\ hidden_mine_hit = FALSE
            /\ last_call = NoCall
            /\ found = NoResult
            /\ knowledge_base = << >>
            /\ entries = NoEntries
            /\ file = None
            /\ added = NoTimes
            /\ agent = run[1]
            /\ applied = 0

NextDemo == AgentPlays \/ GameEnded

SpecDemo == InitDemo /\ [][NextDemo]_vars

\* while self.running: the loop keeps going round, and every pass with the
\* game READY, PLAYING, WON or LOST is a step of NextDemo, so the steps of
\* NextDemo never come to an end
SpecDemoFair == SpecDemo /\ []<><<NextDemo>>_vars

(***************************************************************************)
(* Vocabulary of the properties, stated on the state itself and not        *)
(* through the operators above.                                            *)
(***************************************************************************)
Abs(i) == IF i < 0 THEN -i ELSE i

\* p and q are distinct and touch (8-neighbourhood)
Adjacent(p, q) == p # q /\ Abs(p[1] - q[1]) <= 1 /\ Abs(p[2] - q[2]) <= 1

\* the cells of grid cs that are in state s
CellsIn(cs, s) == { p \in DOMAIN cs : cs[p] = s }

\* the number of mines of M that touch p
MinesAround(M, p) == Cardinality({ m \in M : Adjacent(m, p) })

Terminal == game_state \in {WON, LOST}

(***************************************************************************)
(* C1 (as stated): in every reachable state cells_revealed equals the      *)
(* number of cells whose state is REVEALED.                                *)
(***************************************************************************)
C1_CounterEqualsRevealed ==
    cells_revealed = Cardinality(CellsIn(cell_states, REVEALED))

(***************************************************************************)
(* C1 (amended): in every reachable state cells_revealed equals the number *)
(* of REVEALED cells that are not mines.  It equals the number of REVEALED *)
(* cells in READY, PLAYING and WON; in LOST the detonated mine is REVEALED  *)
(* but not counted, so the counter is one less.                            *)
(***************************************************************************)
C1_CounterEqualsRevealedSafe ==
    /\ cells_revealed = Cardinality(CellsIn(cell_states, REVEALED) \ mines)
    /\ game_state # LOST =>
         cells_revealed = Cardinality(CellsIn(cell_states, REVEALED))
    /\ game_state = LOST =>
         cells_revealed + 1 = Cardinality(CellsIn(cell_states, REVEALED))

\* a mine was detonated after a flood had revealed several cells
C1_Witness == game_state = LOST /\ cells_revealed >= 2

(***************************************************************************)
(* C2: the first in-bounds reveal_cell(row, col) on a READY board leaves a *)
(* mine set of exactly num_mines cells, all on the board, none of them     *)
(* (row, col) or one of its neighbours; for every position of the click.   *)
(***************************************************************************)
C2_MinesAfterFirstReveal ==
    [][\A row \in Rows, col \in Cols :
         (/\ game_state = READY
          /\ 0 <= row /\ row < rows /\ 0 <= col /\ col < cols
          /\ reveal_cell(row, col))
         => /\ Cardinality(mines') = num_mines
            /\ mines' \subseteq (0 .. rows - 1) \X (0 .. cols - 1)
            /\ \A m \in mines' :
                 m # <<row, col>> /\ ~Adjacent(m, <<row, col>>)]_vars

\* the game was opened in the corner (0, 0): it was revealed as a 0 before
\* any flag was placed
C2_Witness ==
    /\ game_state = PLAYING
    /\ Cardinality(mines) = num_mines
    /\ cell_states[<<0, 0>>] = REVEALED
    /\ MinesAround(mines, <<0, 0>>) = 0
    /\ cells_revealed < rows * cols - num_mines - 1

(***************************************************************************)
(* C3: in every reachable state game_state is WON if and only if           *)
(* cells_revealed = rows*cols - num_mines.                                 *)
(***************************************************************************)
C3_WonIffAllSafeRevealed ==
    (game_state = WON) <=> (cells_revealed = rows * cols - num_mines)

\* a game was won
C3_Witness ==
    /\ game_state = WON
    /\ CellsIn(cell_states, REVEALED) = DOMAIN cell_states \ mines

(***************************************************************************)
(* C4 (as stated): game_state is LOST if and only if, since the last       *)
(* reset, a mine cell was the direct target of a reveal_cell call (calls   *)
(* on a board that is already WON or LOST, which are rejected, are not     *)
(* counted).                                                               *)
(***************************************************************************)
C4_LostIffMineTargeted == (game_state = LOST) <=> mine_targeted

(***************************************************************************)
(* C4 (amended): game_state is LOST if and only if, since the last reset,  *)
(* a reveal_cell call made while the game was READY or PLAYING directly    *)
(* targeted a mine cell that was HIDDEN.  (A reveal of a FLAGGED mine       *)
(* detonates nothing.)                                                     *)
(***************************************************************************)
C4_LostIffHiddenMineTargeted == (game_state = LOST) <=> hidden_mine_hit

\* a flagged mine was targeted and spared, a hidden one then detonated
C4_Witness ==
    /\ game_state = LOST
    /\ hidden_mine_hit
    /\ \E m \in mines : cell_states[m] = FLAGGED

(***************************************************************************)
(* C5: WON and LOST are terminal.  From a state where game_state is WON or *)
(* LOST, every reveal_cell and toggle_flag call, whatever its coordinates, *)
(* leaves the whole board object unchanged, reveal_cell returns False, and *)
(* only reset changes game_state.                                          *)
(***************************************************************************)
C5_TerminalStatesFinal ==
    [][Terminal =>
         /\ \/ UNCHANGED game /\ ret' = "False"
            \/ \A row \in Rows, col \in Cols : ~reveal_cell(row, col)
         /\ \/ UNCHANGED game
            \/ \A row \in Rows, col \in Cols : ~toggle_flag(row, col)
         /\ \/ game_state' = game_state
            \/ \E d \in Difficulty \cup {NoDifficulty} : reset(d)]_vars

\* a reveal_cell call on a won board returned False
C5_Witness == game_state = WON /\ ret = "False"

(***************************************************************************)
(* C6: on a READY board, whatever flags it carries, reveal_cell on any     *)
(* in-bounds cell generates the mines, moves game_state out of READY (to   *)
(* PLAYING or WON, never LOST) and returns True.                           *)
(***************************************************************************)
C6_FirstRevealIsSafe ==
    [][\A row \in Rows, col \in Cols :
         (/\ game_state = READY
          /\ 0 <= row /\ row < rows /\ 0 <= col /\ col < cols
          /\ reveal_cell(row, col))
         => /\ mines = {} /\ Cardinality(mines') = num_mines
            /\ ~first_click'
            /\ game_state' \in {PLAYING, WON}
            /\ ret' = "True"]_vars

\* the first reveal named a flagged cell: the mines were generated, the game
\* is on, and nothing was revealed
C6_Witness ==
    /\ game_state = PLAYING
    /\ ret = "True"
    /\ cells_revealed = 0
    /\ flags_placed > 0

(***************************************************************************)
(* Flood regions.  A 0-valued cell is a cell without a mine on it or next  *)
(* to it.  Closure(Z, S) is the set of cells reachable from S through an   *)
(* 8-connected chain of cells of Z.                                        *)
(***************************************************************************)
ZeroCell(M, p) == p \notin M /\ MinesAround(M, p) = 0

Grow(Z, S) == S \cup { q \in Z : \E p \in S : Adjacent(p, q) }

RECURSIVE Closure(_, _)
Closure(Z, S) ==
    LET T == Grow(Z, S) IN IF T = S THEN S ELSE Closure(Z, T)

\* the cells of `among` that are in `region` or touch it
WithBorder(region, among) ==
    region \cup { q \in among : \E p \in region : Adjacent(p, q) }

\* reveal_cell(row, col) is a call on a live board that names a Hidden cell
\* which is 0-valued under the mines the call leaves
RevealsHiddenZero(row, col) ==
    /\ ~Terminal
    /\ <<row, col>> \in DOMAIN cell_states
    /\ cell_states[<<row, col>>] = HIDDEN
    /\ ZeroCell(mines', <<row, col>>)
    /\ reveal_cell(row, col)

(***************************************************************************)
(* C7 (as stated): after reveal_cell on a Hidden 0-valued cell, every cell *)
(* reachable from it through an 8-connected chain of 0-valued cells is     *)
(* REVEALED, and so is every neighbour of that zero region; no other cell  *)
(* changes.  Flags placed before the reveal make no difference.            *)
(***************************************************************************)
C7_FloodComplete ==
    [][\A row \in Rows, col \in Cols :
         RevealsHiddenZero(row, col) =>
           LET all    == DOMAIN cell_states
               region == Closure({ z \in all : ZeroCell(mines', z) },
                                 {<<row, col>>})
               reach  == WithBorder(region, all)
           IN  \A p \in all :
                 cell_states'[p] = IF p \in reach THEN REVEALED
                                   ELSE cell_states[p]]_vars

(***************************************************************************)
(* C7 (amended): after reveal_cell on a Hidden 0-valued cell, every cell   *)
(* reachable from it through an 8-connected chain of 0-valued cells that   *)
(* were HIDDEN before the call is REVEALED, and so is every neighbour of   *)
(* that region that was HIDDEN before the call (the non-zero ones are      *)
(* revealed and not expanded); no other cell changes.  The flood neither   *)
(* reveals nor passes through a FLAGGED cell, and does not continue from a *)
(* cell that was already REVEALED.                                         *)
(***************************************************************************)
C7_FloodCompleteOverHidden ==
    [][\A row \in Rows, col \in Cols :
         RevealsHiddenZero(row, col) =>
           LET all    == DOMAIN cell_states
               hidden == CellsIn(cell_states, HIDDEN)
               region == Closure({ z \in hidden : ZeroCell(mines', z) },
                                 {<<row, col>>})
               reach  == WithBorder(region, hidden)
           IN  \A p \in all :
                 cell_states'[p] = IF p \in reach THEN REVEALED
                                   ELSE cell_states[p]]_vars

\* a flood ran into a flag: a FLAGGED 0-valued cell touches a REVEALED
\* 0-valued cell
C7_Witness ==
    /\ game_state = PLAYING
    /\ \E f \in CellsIn(cell_states, FLAGGED) :
         /\ ZeroCell(mines, f)
         /\ \E z \in CellsIn(cell_states, REVEALED) :
              ZeroCell(mines, z) /\ Adjacent(z, f)

(***************************************************************************)
(* C8: a reveal_cell call whose target is not a mine turns no mine cell    *)
(* REVEALED, and every cell it reveals is a cell of the board.             *)
(***************************************************************************)
C8_FloodRevealsNoMine ==
    [][\/ /\ DOMAIN cell_states' = (0 .. rows - 1) \X (0 .. cols - 1)
          /\ DOMAIN cell_states' = DOMAIN cell_states
          /\ \A p \in DOMAIN cell_states :
               (cell_states'[p] = REVEALED /\ cell_states[p] # REVEALED)
               => p \notin mines'
       \/ \A row \in Rows, col \in Cols :
            <<row, col>> \in mines' \/ ~reveal_cell(row, col)]_vars

\* a flood ran up to the numbers around the mines and no mine is revealed
C8_Witness ==
    /\ game_state = PLAYING
    /\ cells_revealed >= 3
    /\ \A m \in mines : cell_states[m] = HIDDEN
    /\ \E p \in CellsIn(cell_states, REVEALED) : MinesAround(mines, p) > 0

(***************************************************************************)
(* C9: reveal_cell changes only cells that were HIDDEN before the call,    *)
(* and only to REVEALED: no FLAGGED cell changes, no REVEALED cell is      *)
(* counted again (the counter grows by the number of non-mine cells that   *)
(* changed), and flags_placed is unchanged.                                *)
(***************************************************************************)
C9_RevealTouchesOnlyHidden ==
    [][\/ /\ DOMAIN cell_states' = DOMAIN cell_states
          /\ \A p \in DOMAIN cell_states :
               cell_states'[p] # cell_states[p]
               => (cell_states[p] = HIDDEN /\ cell_states'[p] = REVEALED)
          /\ flags_placed' = flags_placed
          /\ cells_revealed' - cells_revealed =
               Cardinality({ p \in DOMAIN cell_states \ mines' :
                               cell_states'[p] # cell_states[p] })
       \/ \A row \in Rows, col \in Cols : ~reveal_cell(row, col)]_vars

\* a flood went round a flag: a FLAGGED cell all of whose neighbours are
\* REVEALED
C9_Witness ==
    /\ game_state = PLAYING
    /\ \E f \in CellsIn(cell_states, FLAGGED) :
         \A q \in DOMAIN cell_states :
           Adjacent(f, q) => cell_states[q] = REVEALED

(***************************************************************************)
(* C10: in every reachable state flags_placed equals the number of cells   *)
(* whose state is FLAGGED, and is never negative.                          *)
(***************************************************************************)
C10_FlagsCounted ==
    /\ flags_placed = Cardinality(CellsIn(cell_states, FLAGGED))
    /\ flags_placed >= 0

\* flags stand on a board on which cells have been revealed
C10_Witness ==
    /\ game_state = PLAYING
    /\ cells_revealed > 0
    /\ Cardinality(CellsIn(cell_states, FLAGGED)) >= 2

(***************************************************************************)
(* C11: toggle_flag called twice in a row on the same cell, HIDDEN before  *)
(* the first call, leaves the cell HIDDEN and every field of the board     *)
(* (flags_placed, every other cell, the counters, game_state) as it was    *)
(* before the pair.                                                        *)
(***************************************************************************)
C11_ToggleTwiceRestores ==
    (last_call.op = "toggle_flag" /\ last_call.times = 2)
    => /\ cell_states[last_call.at] = HIDDEN
       /\ flags_placed = last_call.before[8]
       /\ <<rows, cols, num_mines, board, cell_states, mines, game_state,
            flags_placed, cells_revealed, first_click>> = last_call.before

\* a pair of toggle_flag calls was made on a hidden cell of a board in play
\* that carries another flag
C11_Witness ==
    /\ last_call.op = "toggle_flag" /\ last_call.times = 2
    /\ game_state = PLAYING
    /\ cell_states[last_call.at] = HIDDEN
    /\ flags_placed = 1

(***************************************************************************)
(* C12: toggle_flag raises nothing and is a no-op (no field of the board   *)
(* changes) when the coordinates are out of bounds, when game_state is WON *)
(* or LOST, or when the target cell is REVEALED.  Otherwise it changes the *)
(* target cell and no other (HIDDEN to FLAGGED with flags_placed + 1,      *)
(* FLAGGED to HIDDEN with flags_placed - 1) and nothing else.              *)
(***************************************************************************)
C12_ToggleFlagEffect ==
    [][\A row \in Rows, col \in Cols :
         toggle_flag(row, col) =>
           LET p    == <<row, col>>
               noop == \/ Terminal
                       \/ ~(0 <= row /\ row < rows /\ 0 <= col /\ col < cols)
                       \/ cell_states[p] = REVEALED
           IN  /\ ret' = ret
               /\ <<rows', cols', num_mines', board', mines', game_state',
                    cells_revealed', first_click'>>
                    = <<rows, cols, num_mines, board, mines, game_state,
                        cells_revealed, first_click>>
               /\ noop => (cell_states' = cell_states
                           /\ flags_placed' = flags_placed)
               /\ ~noop =>
                    /\ \A q \in DOMAIN cell_states \ {p} :
                         cell_states'[q] = cell_states[q]
                    /\ \/ /\ cell_states[p] = HIDDEN
                          /\ cell_states'[p] = FLAGGED
                          /\ flags_placed' = flags_placed + 1
                       \/ /\ cell_states[p] = FLAGGED
                          /\ cell_states'[p] = HIDDEN
                          /\ flags_placed' = flags_placed - 1]_vars

\* two flags were placed on a board before any reveal
C12_Witness ==
    /\ game_state = READY
    /\ ret = None
    /\ Cardinality(CellsIn(cell_states, FLAGGED)) = 2

(***************************************************************************)
(* C13 (as stated): reveal_cell with out-of-bounds coordinates returns     *)
(* True and changes no field of the board, in every state.                 *)
(***************************************************************************)
C13_OutOfBoundsReturnsTrue ==
    [][\A row \in Rows, col \in Cols :
         (/\ ~(0 <= row /\ row < rows /\ 0 <= col /\ col < cols)
          /\ reveal_cell(row, col))
         => (ret' = "True" /\ UNCHANGED game)]_vars

(***************************************************************************)
(* C13 (amended): reveal_cell with out-of-bounds coordinates raises        *)
(* nothing and changes no field of the board (no cell, no counter, not     *)
(* game_state; on a READY board no mine is generated and first_click       *)
(* stays set).  It returns True while the game is READY or PLAYING, and    *)
(* False when the game is WON or LOST.                                     *)
(***************************************************************************)
C13_OutOfBoundsIsNoOp ==
    [][\A row \in Rows, col \in Cols :
         (/\ ~(0 <= row /\ row < rows /\ 0 <= col /\ col < cols)
          /\ reveal_cell(row, col))
         => /\ UNCHANGED game
            /\ ret' = IF Terminal THEN "False" ELSE "True"]_vars

\* a reveal_cell call beyond the board returned True on a board that is
\* still READY, flags in place
C13_Witness ==
    /\ game_state = READY
    /\ ret = "True"
    /\ mines = {}
    /\ first_click
    /\ flags_placed = 1

(***************************************************************************)
(* C14 (as stated): reveal_cell on an in-bounds cell that is FLAGGED or    *)
(* REVEALED returns True and leaves every cell state, cells_revealed and   *)
(* flags_placed unchanged, in every state.                                 *)
(***************************************************************************)
C14_NotHiddenReturnsTrue ==
    [][\A row \in Rows, col \in Cols :
         (/\ <<row, col>> \in DOMAIN cell_states
          /\ cell_states[<<row, col>>] \in {FLAGGED, REVEALED}
          /\ reveal_cell(row, col))
         => /\ ret' = "True"
            /\ cell_states' = cell_states
            /\ cells_revealed' = cells_revealed
            /\ flags_placed' = flags_placed]_vars

(***************************************************************************)
(* C14 (amended): while the game is READY or PLAYING, reveal_cell on an    *)
(* in-bounds cell that is FLAGGED or REVEALED returns True and leaves      *)
(* every cell state, cells_revealed and flags_placed unchanged; the game   *)
(* is not LOST by it, so a flagged mine is never detonated.  On a WON or   *)
(* LOST board the call changes nothing either, and returns False.          *)
(***************************************************************************)
C14_NotHiddenIsNoOp ==
    [][\A row \in Rows, col \in Cols :
         (/\ <<row, col>> \in DOMAIN cell_states
          /\ cell_states[<<row, col>>] \in {FLAGGED, REVEALED}
          /\ reveal_cell(row, col))
         => /\ cell_states' = cell_states
            /\ cells_revealed' = cells_revealed
            /\ flags_placed' = flags_placed
            /\ ret' = IF Terminal THEN "False" ELSE "True"
            /\ ~Terminal => game_state' = PLAYING]_vars

\* a reveal_cell call on a flagged mine returned True, and every mine is
\* still unrevealed
C14_Witness ==
    /\ game_state = PLAYING
    /\ ret = "True"
    /\ mine_targeted
    /\ cells_revealed > 0
    /\ \A m \in mines : cell_states[m] # REVEALED

(***************************************************************************)
(* C15: the mine set is empty exactly while game_state is READY; the first *)
(* in-bounds reveal_cell fills it (with num_mines mines); after that no    *)
(* reveal_cell or toggle_flag call changes the mine set or the cell        *)
(* values: they only change in that first reveal and in reset.             *)
(***************************************************************************)
C15_MinesGeneratedOnce ==
    /\ []((mines = {}) <=> (game_state = READY))
    /\ [][/\ game_state = READY =>
              \A row \in 0 .. rows - 1, col \in 0 .. cols - 1 :
                reveal_cell(row, col) =>
                  (mines' # {} /\ Cardinality(mines') = num_mines)
          /\ \/ mines' = mines /\ board' = board
             \/ /\ game_state = READY
                /\ \E row \in 0 .. rows - 1, col \in 0 .. cols - 1 :
                     reveal_cell(row, col)
             \/ /\ \A row \in Rows, col \in Cols :
                     ~reveal_cell(row, col) /\ ~toggle_flag(row, col)
                /\ \E d \in Difficulty \cup {NoDifficulty} : reset(d)]_vars

\* a game went on after the mines were laid: cells were revealed, a flag
\* placed, and a mine detonated
C15_Witness ==
    /\ game_state = LOST
    /\ Cardinality(mines) = num_mines
    /\ flags_placed = 1
    /\ cells_revealed >= 1

(***************************************************************************)
(* C16: reset, called in any state, leaves the state of a freshly built    *)
(* board: the size is the preset given, or the size before the call when   *)
(* none is given; the two grids have exactly rows x cols cells, every cell *)
(* HIDDEN with value 0; the mine set is empty, flags_placed and            *)
(* cells_revealed are 0, game_state is READY and the next reveal is a      *)
(* first click.                                                            *)
(***************************************************************************)
C16_ResetIsFresh ==
    [][\A d \in Difficulty \cup {NoDifficulty} :
         reset(d) =>
           LET size == IF d = NoDifficulty THEN <<rows, cols, num_mines>>
                       ELSE d
               all  == (0 .. size[1] - 1) \X (0 .. size[2] - 1)
           IN  /\ <<rows', cols', num_mines'>> = size
               /\ DOMAIN cell_states' = all /\ DOMAIN board' = all
               /\ Cardinality(all) = rows' * cols'
               /\ \A p \in all : cell_states'[p] = HIDDEN /\ board'[p] = 0
               /\ mines' = {}
               /\ flags_placed' = 0 /\ cells_revealed' = 0
               /\ game_state' = READY
               /\ first_click']_vars

\* a lost game was reset to another size
C16_Witness ==
    /\ last_call.op = "reset"
    /\ last_call.from = LOST
    /\ last_call.at = EXPERT
    /\ game_state = READY
    /\ rows = 2

\* the number of cells that neither are p nor touch it
CellsAwayFrom(p) ==
    Cardinality({ q \in DOMAIN cell_states : q # p /\ ~Adjacent(p, q) })

(***************************************************************************)
(* C17 (as stated): whenever num_mines is greater than or equal to the     *)
(* number of cells left after excluding the first-clicked cell and its     *)
(* neighbours, the first reveal raises an error and changes nothing: no    *)
(* mine set is stored, the board stays READY, no cell is revealed.         *)
(***************************************************************************)
C17_FailsWhenNoRoomOrExact ==
    [][\A row \in 0 .. rows - 1, col \in 0 .. cols - 1 :
         (/\ game_state = READY
          /\ num_mines >= CellsAwayFrom(<<row, col>>)
          /\ reveal_cell(row, col))
         => (ret' = "ValueError" /\ UNCHANGED game)]_vars

(***************************************************************************)
(* C17 (amended): whenever num_mines is greater than the number of cells   *)
(* left after excluding the first-clicked cell and its neighbours, the     *)
(* first reveal raises an error and changes nothing: the mine set stays    *)
(* empty, the board stays READY with first_click set and no cell revealed. *)
(* When num_mines is equal to (or less than) that number, nothing is       *)
(* raised: exactly num_mines mines are laid and the game starts.           *)
(***************************************************************************)
C17_FailsWhenNoRoom ==
    [][\A row \in 0 .. rows - 1, col \in 0 .. cols - 1 :
         (game_state = READY /\ reveal_cell(row, col))
         => IF num_mines > CellsAwayFrom(<<row, col>>)
            THEN /\ ret' = "ValueError"
                 /\ UNCHANGED game
                 /\ mines' = {} /\ game_state' = READY /\ first_click'
                 /\ \A p \in DOMAIN cell_states' : cell_states'[p] # REVEALED
            ELSE /\ ret' = "True"
                 /\ Cardinality(mines') = num_mines
                 /\ game_state' \in {PLAYING, WON}]_vars

\* a first reveal raised on a board that carries a flag, and left it READY
C17_Witness ==
    /\ ret = "ValueError"
    /\ game_state = READY
    /\ mines = {}
    /\ flags_placed = 1

(***************************************************************************)
(* The constraint pass in the words of the rules.  For a cell c:           *)
(* HiddenAround(c) and FlaggedAround(c) are its HIDDEN and FLAGGED         *)
(* neighbours, Effective(c) its value less the number of its flagged       *)
(* neighbours.  Elements(l) are the cells a returned list holds.           *)
(***************************************************************************)
HiddenAround(c)  == { q \in CellsIn(cell_states, HIDDEN) : Adjacent(c, q) }
FlaggedAround(c) == { q \in CellsIn(cell_states, FLAGGED) : Adjacent(c, q) }
Effective(c)     == board[c] - Cardinality(FlaggedAround(c))
Elements(l)      == { l[i] : i \in 1 .. Len(l) }

(***************************************************************************)
(* C18: find_certain_mines returns exactly the HIDDEN cells that are a     *)
(* neighbour of some REVEALED cell c with |hidden(c)| = value(c) -         *)
(* |flagged(c)| > 0: no other cell, and no cell twice.                     *)
(***************************************************************************)
C18_CertainMinesExact ==
    found.op = "find_certain_mines" =>
      /\ Elements(found.out) =
           { h \in CellsIn(cell_states, HIDDEN) :
               \E c \in CellsIn(cell_states, REVEALED) :
                 /\ h \in HiddenAround(c)
                 /\ Cardinality(HiddenAround(c)) = Effective(c)
                 /\ Effective(c) > 0 }
      /\ Len(found.out) = Cardinality(Elements(found.out))

\* a revealed 2 with two Hidden and no Flagged neighbour: find_certain_mines
\* returned both Hidden neighbours, and not a third Hidden cell that lies
\* next to another revealed number
C18_Witness ==
    /\ found.op = "find_certain_mines"
    /\ \E c \in CellsIn(cell_states, REVEALED) :
         /\ board[c] = 2
         /\ Cardinality(HiddenAround(c)) = 2
         /\ FlaggedAround(c) = {}
         /\ HiddenAround(c) \subseteq Elements(found.out)
    /\ \E c \in CellsIn(cell_states, REVEALED) :
         /\ board[c] > 0
         /\ HiddenAround(c) # {}
         /\ ~(HiddenAround(c) \subseteq Elements(found.out))

(***************************************************************************)
(* C19: find_certain_safe returns exactly the HIDDEN cells that are a      *)
(* neighbour of some REVEALED cell c with value(c) - |flagged(c)| = 0: no  *)
(* other cell, and no cell twice.                                          *)
(***************************************************************************)
C19_CertainSafeExact ==
    found.op = "find_certain_safe" =>
      /\ Elements(found.out) =
           { h \in CellsIn(cell_states, HIDDEN) :
               \E c \in CellsIn(cell_states, REVEALED) :
                 h \in HiddenAround(c) /\ Effective(c) = 0 }
      /\ Len(found.out) = Cardinality(Elements(found.out))

\* a revealed 1 with one Flagged and one Hidden neighbour: find_certain_safe
\* returned the Hidden neighbour, and not a cell next to a revealed cell
\* with more flags around it than its value
C19_Witness ==
    /\ found.op = "find_certain_safe"
    /\ \E c \in CellsIn(cell_states, REVEALED) :
         /\ board[c] = 1
         /\ Cardinality(FlaggedAround(c)) = 1
         /\ Cardinality(HiddenAround(c)) = 1
         /\ HiddenAround(c) \subseteq Elements(found.out)
    /\ \E c \in CellsIn(cell_states, REVEALED) :
         /\ Effective(c) < 0
         /\ HiddenAround(c) # {}
         /\ HiddenAround(c) \cap Elements(found.out) = {}

(***************************************************************************)
(* C20: in every reachable state that is not WON or LOST and in which      *)
(* every FLAGGED cell is a mine, every cell find_certain_mines returns is  *)
(* a mine and every cell find_certain_safe returns is not a mine.          *)
(***************************************************************************)
C20_ConstraintPassSound ==
    (~Terminal /\ CellsIn(cell_states, FLAGGED) \subseteq mines) =>
      /\ found.op = "find_certain_mines" =>
           Elements(found.out) \subseteq mines
      /\ found.op = "find_certain_safe" =>
           Elements(found.out) \cap mines = {}

\* on a board in play with a flag on a mine, find_certain_safe returned a
\* cell next to a number whose mines are all flagged
C20_Witness ==
    /\ game_state = PLAYING
    /\ flags_placed = 1
    /\ CellsIn(cell_states, FLAGGED) \subseteq mines
    /\ found.op = "find_certain_safe"
    /\ \E h \in Elements(found.out) :
         \E c \in CellsIn(cell_states, REVEALED) :
           Adjacent(c, h) /\ board[c] > 0 /\ Effective(c) = 0

(***************************************************************************)
(* C21: in every reachable state that is not WON or LOST and in which      *)
(* every FLAGGED cell is a mine, every cell check_1_2_pattern or           *)
(* check_1_2_1_pattern reports as a mine is a mine, and every cell         *)
(* check_1_2_pattern or check_1_1_pattern reports as safe is not a mine.   *)
(***************************************************************************)
C21_PatternsSound ==
    (~Terminal /\ CellsIn(cell_states, FLAGGED) \subseteq mines) =>
      /\ found.op = "check_1_2_pattern" =>
           /\ Elements(found.out[1]) \subseteq mines
           /\ Elements(found.out[2]) \cap mines = {}
      /\ found.op = "check_1_2_1_pattern" =>
           Elements(found.out) \subseteq mines
      /\ found.op = "check_1_1_pattern" =>
           Elements(found.out) \cap mines = {}

(***************************************************************************)
(* The wall patterns in the words of the rules.  A line of cells starts at *)
(* a cell a and steps by d, (0, 1) along a row and (1, 0) along a column.  *)
(* Walls(a, d) are the inward directions of the walls the line lies along: *)
(* a row lies along the top wall (inward: down) or the bottom wall         *)
(* (inward: up), a column along the left or the right wall.                *)
(***************************************************************************)
Plus(p, d) == <<p[1] + d[1], p[2] + d[2]>>
Minus(p, d) == <<p[1] - d[1], p[2] - d[2]>>
Along == { <<0, 1>>, <<1, 0>> }
Walls(a, d) ==
    IF d = <<0, 1>>
    THEN { n \in { <<1, 0>>, <<-1, 0>> } :
             (n = <<1, 0>> /\ a[1] = 0) \/ (n = <<-1, 0>> /\ a[1] = rows - 1) }
    ELSE { n \in { <<0, 1>>, <<0, -1>> } :
             (n = <<0, 1>> /\ a[2] = 0) \/ (n = <<0, -1>> /\ a[2] = cols - 1) }
RevealedWith(c, v) ==
    c \in CellsIn(cell_states, REVEALED) /\ Effective(c) = v

\* the line of three cells from a by d is revealed and reads 1, 2, 1
Reads121(a, d) ==
    /\ RevealedWith(a, 1)
    /\ RevealedWith(Plus(a, d), 2)
    /\ RevealedWith(Plus(Plus(a, d), d), 1)

(***************************************************************************)
(* C22: check_1_2_1_pattern returns exactly the HIDDEN cells that lie next *)
(* to an outer 1, on the inward side, of three REVEALED cells in a line    *)
(* along a wall whose effective values are 1, 2, 1 (top wall: the cells    *)
(* directly below the two 1's), each once; a 1, 2, 1 line that is not      *)
(* along a wall adds no cell.                                              *)
(***************************************************************************)
C22_Pattern121Exact ==
    found.op = "check_1_2_1_pattern" =>
      /\ Elements(found.out) =
           { h \in CellsIn(cell_states, HIDDEN) :
               \E a \in DOMAIN cell_states, d \in Along :
                 /\ Reads121(a, d)
                 /\ \E n \in Walls(a, d) :
                      h \in { Plus(a, n), Plus(Plus(Plus(a, d), d), n) } }
      /\ Len(found.out) = Cardinality(Elements(found.out))

\* a revealed 1, 2, 1 along the top wall with Hidden cells below: the call
\* returned the two cells below the 1's and not the cell below the 2
C22_Witness ==
    /\ found.op = "check_1_2_1_pattern"
    /\ \E a \in DOMAIN cell_states :
         /\ a[1] = 0
         /\ Reads121(a, <<0, 1>>)
         /\ \A k \in 0 .. 2 : cell_states[<<1, a[2] + k>>] = HIDDEN
         /\ Elements(found.out) = { <<1, a[2]>>, <<1, a[2] + 2>> }

\* the pair of cells a, a + d is revealed and reads v, then w
Reads(a, d, v, w) == RevealedWith(a, v) /\ RevealedWith(Plus(a, d), w)

(***************************************************************************)
(* C23: for two adjacent REVEALED cells along a wall with effective values *)
(* 1 then 2, check_1_2_pattern reports the HIDDEN cell one step beyond the *)
(* 1 along the wall, if there is one, as safe and the HIDDEN cell one step *)
(* beyond the 2, if there is one, as a mine; and every cell it reports is  *)
(* HIDDEN and one step beyond a revealed pair of a 1 and a 2 that lies     *)
(* along a wall, a mine beyond the 2 and a safe cell beyond the 1, so a    *)
(* pair that is not along a wall adds nothing.  No cell is listed twice.   *)
(***************************************************************************)
C23_Pattern12Exact ==
    found.op = "check_1_2_pattern" =>
      /\ \A a \in DOMAIN cell_states, d \in Along :
           (Reads(a, d, 1, 2) /\ Walls(a, d) # {}) =>
             /\ Minus(a, d) \in CellsIn(cell_states, HIDDEN) =>
                  Minus(a, d) \in Elements(found.out[2])
             /\ Plus(Plus(a, d), d) \in CellsIn(cell_states, HIDDEN) =>
                  Plus(Plus(a, d), d) \in Elements(found.out[1])
      /\ \A h \in Elements(found.out[1]) :
           /\ h \in CellsIn(cell_states, HIDDEN)
           /\ \E a \in DOMAIN cell_states, d \in Along :
                /\ Walls(a, d) # {}
                /\ \/ Reads(a, d, 1, 2) /\ h = Plus(Plus(a, d), d)
                   \/ Reads(a, d, 2, 1) /\ h = Minus(a, d)
      /\ \A h \in Elements(found.out[2]) :
           /\ h \in CellsIn(cell_states, HIDDEN)
           /\ \E a \in DOMAIN cell_states, d \in Along :
                /\ Walls(a, d) # {}
                /\ \/ Reads(a, d, 1, 2) /\ h = Minus(a, d)
                   \/ Reads(a, d, 2, 1) /\ h = Plus(Plus(a, d), d)
      /\ Len(found.out[1]) = Cardinality(Elements(found.out[1]))
      /\ Len(found.out[2]) = Cardinality(Elements(found.out[2]))

\* a revealed 1 then 2 in the middle of a wall of four cells, both ends
\* Hidden: the call returned the end beyond the 2 as the one mine and the
\* end beyond the 1 as the one safe cell
C23_Witness ==
    /\ found.op = "check_1_2_pattern"
    /\ \E a \in DOMAIN cell_states, d \in Along :
         /\ Reads(a, d, 1, 2)
         /\ Walls(a, d) # {}
         /\ Minus(a, d) \in CellsIn(cell_states, HIDDEN)
         /\ Plus(Plus(a, d), d) \in CellsIn(cell_states, HIDDEN)
         /\ found.out = << <<Plus(Plus(a, d), d)>>, <<Minus(a, d)>> >>

\* the board seen in a mirror that swaps left and right: a grid, a cell,
\* a set of cells
MirrorGrid(f) == [p \in DOMAIN f |-> f[<<p[1], cols - 1 - p[2]>>]]
MirrorCell(p) == <<p[1], cols - 1 - p[2]>>
MirrorCells(S) == { MirrorCell(p) : p \in S }

(***************************************************************************)
(* C24: check_1_2_pattern checks a wall in both directions: a REVEALED     *)
(* wall pair that reads 2 then 1 (the 2 at the lower index) fires like the *)
(* mirrored 1 then 2 pair, the HIDDEN cell beyond the 2 reported as a mine *)
(* and the HIDDEN cell beyond the 1 as safe; so what check_1_2_pattern     *)
(* returns on a board is the mirror image of what it returns on the        *)
(* mirrored board.                                                         *)
(***************************************************************************)
C24_Pattern12BothDirections ==
    found.op = "check_1_2_pattern" =>
      /\ \A a \in DOMAIN cell_states, d \in Along :
           (Reads(a, d, 2, 1) /\ Walls(a, d) # {}) =>
             /\ Minus(a, d) \in CellsIn(cell_states, HIDDEN) =>
                  Minus(a, d) \in Elements(found.out[1])
             /\ Plus(Plus(a, d), d) \in CellsIn(cell_states, HIDDEN) =>
                  Plus(Plus(a, d), d) \in Elements(found.out[2])
      /\ LET mirrored == check_1_2_pattern(rows, cols, MirrorGrid(board),
                                           MirrorGrid(cell_states))
         IN  /\ Elements(found.out[1]) = MirrorCells(Elements(mirrored[1]))
             /\ Elements(found.out[2]) = MirrorCells(Elements(mirrored[2]))

\* the cells on the four edges, each with the direction that leads inward
EdgeStarts ==
    { <<e, n>> \in (DOMAIN cell_states)
                     \X { <<0, 1>>, <<0, -1>>, <<1, 0>>, <<-1, 0>> } :
        \/ n = <<0, 1>>  /\ e[2] = 0
        \/ n = <<0, -1>> /\ e[2] = cols - 1
        \/ n = <<1, 0>>  /\ e[1] = 0
        \/ n = <<-1, 0>> /\ e[1] = rows - 1 }

(***************************************************************************)
(* C25: check_1_1_pattern returns exactly the cells that are the third     *)
(* cell of a line that starts on one of the four edges and runs inward,    *)
(* whose first two cells are REVEALED with effective value 1 each, and     *)
(* that are HIDDEN; a third cell that is off the board or not HIDDEN is    *)
(* not returned, no other cell is, and no cell is listed twice.            *)
(***************************************************************************)
C25_Pattern11Exact ==
    found.op = "check_1_1_pattern" =>
      /\ Elements(found.out) =
           { h \in CellsIn(cell_states, HIDDEN) :
               \E s \in EdgeStarts :
                 /\ RevealedWith(s[1], 1)
                 /\ RevealedWith(Plus(s[1], s[2]), 1)
                 /\ h = Plus(Plus(s[1], s[2]), s[2]) }
      /\ Len(found.out) = Cardinality(Elements(found.out))

\* two lines from an edge start with a revealed 1, 1: the third cell of one
\* is Hidden and is the one cell returned, the third cell of the other is
\* on the board and not Hidden
C25_Witness ==
    /\ found.op = "check_1_1_pattern"
    /\ \E s, t \in EdgeStarts :
         /\ RevealedWith(s[1], 1) /\ RevealedWith(Plus(s[1], s[2]), 1)
         /\ RevealedWith(t[1], 1) /\ RevealedWith(Plus(t[1], t[2]), 1)
         /\ Plus(Plus(s[1], s[2]), s[2]) \in CellsIn(cell_states, HIDDEN)
         /\ Plus(Plus(t[1], t[2]), t[2]) \in CellsIn(cell_states, REVEALED)
         /\ found.out = << Plus(Plus(s[1], s[2]), s[2]) >>

\* the three choose_action
ChooseOps == { "PatternAgent.choose_action",
               "MinesweeperAgent.choose_action",
               "RandomAgent.choose_action" }

(***************************************************************************)
(* C26: whenever choose_action of PatternAgent, MinesweeperAgent or        *)
(* RandomAgent returns an action, a 'flag' or a 'reveal', the target of    *)
(* the action is a cell of the board and the cell is HIDDEN.               *)
(***************************************************************************)
C26_TargetIsHidden ==
    (found.op \in ChooseOps /\ found.out # NoAction) =>
      /\ Len(found.out) = 3
      /\ found.out[1] \in {"flag", "reveal"}
      /\ <<found.out[2], found.out[3]>> \in CellsIn(cell_states, HIDDEN)

\* a board with a Revealed, a Flagged and a Hidden cell, on which
\* PatternAgent.choose_action returned a flag
C26_Witness ==
    /\ found.op = "PatternAgent.choose_action"
    /\ found.out # NoAction
    /\ found.out[1] = "flag"
    /\ CellsIn(cell_states, REVEALED) # {}
    /\ CellsIn(cell_states, FLAGGED) # {}

\* what the steps of PatternAgent.choose_action work from, on the board as
\* it is: the cells of each list
CertainMines == Elements(find_certain_mines(rows, cols, board, cell_states))
CertainSafe  == Elements(find_certain_safe(rows, cols, board, cell_states))
Mines121     == Elements(check_1_2_1_pattern(rows, cols, board, cell_states))
Mines12      == Elements(check_1_2_pattern(rows, cols, board,
                                           cell_states)[1])
Safe12       == Elements(check_1_2_pattern(rows, cols, board,
                                           cell_states)[2])
Safe11       == Elements(check_1_1_pattern(rows, cols, board, cell_states))

(***************************************************************************)
(* C27: PatternAgent.choose_action returns the action of the first step    *)
(* that has a cell, in the order: flag a certain mine, reveal a certain    *)
(* safe cell, flag a 1-2-1 mine, flag a 1-2 mine, reveal a 1-2 safe cell,  *)
(* reveal a 1-1 safe cell, guess.  So a certain mine is flagged even when  *)
(* certain-safe cells exist, and a pattern decides only when the           *)
(* constraint pass finds nothing.                                          *)
(***************************************************************************)
C27_PriorityChain ==
    found.op = "PatternAgent.choose_action" =>
      IF CertainMines # {}
      THEN found.out \in { Flag(p) : p \in CertainMines }
      ELSE IF CertainSafe # {}
      THEN found.out \in { Reveal(p) : p \in CertainSafe }
      ELSE IF Mines121 # {}
      THEN found.out \in { Flag(p) : p \in Mines121 }
      ELSE IF Mines12 # {}
      THEN found.out \in { Flag(p) : p \in Mines12 }
      ELSE IF Safe12 # {}
      THEN found.out \in { Reveal(p) : p \in Safe12 }
      ELSE IF Safe11 # {}
      THEN found.out \in { Reveal(p) : p \in Safe11 }
      ELSE found.out \in
             {NoAction} \cup { Reveal(p) : p \in CellsIn(cell_states, HIDDEN) }

\* the constraint pass finds a certain mine and a certain safe cell, and a
\* pattern has a cell too: choose_action returned the flag of a certain
\* mine
C27_Witness ==
    /\ found.op = "PatternAgent.choose_action"
    /\ CertainMines # {}
    /\ CertainSafe # {}
    /\ Mines12 \cup Safe12 \cup Safe11 \cup Mines121 # {}
    /\ found.out[1] = "flag"

\* the number of Revealed neighbours of a cell, and the order of the loops
RevealedAround(h) ==
    Cardinality({ q \in CellsIn(cell_states, REVEALED) : Adjacent(h, q) })
RowMajor(p, q) == p[1] < q[1] \/ (p[1] = q[1] /\ p[2] <= q[2])
BoardCorners ==
    { <<0, 0>>, <<0, cols - 1>>, <<rows - 1, 0>>, <<rows - 1, cols - 1>> }

\* the latest call was a choose_action that reached its guess: no step
\* before the guess had a cell
Guessed ==
    \/ /\ found.op = "PatternAgent.choose_action"
       /\ CertainMines \cup CertainSafe \cup Mines121 \cup Mines12
            \cup Safe12 \cup Safe11 = {}
    \/ /\ found.op = "MinesweeperAgent.choose_action"
       /\ Elements(get_mine_cells(rows, cols, board, cell_states)) = {}
       /\ Elements(get_safe_cells(rows, cols, board, cell_states)) = {}

(***************************************************************************)
(* C28: when no deduction and no pattern applies, choose_action guesses.   *)
(* If some HIDDEN cell has a REVEALED neighbour it returns 'reveal' on the *)
(* HIDDEN cell with the most REVEALED neighbours, the first such cell in   *)
(* row-major order; if there are HIDDEN cells and none has a REVEALED      *)
(* neighbour, it returns 'reveal' on a HIDDEN corner when there is one.    *)
(***************************************************************************)
C28_GuessFallback ==
    Guessed =>
      LET hidden == CellsIn(cell_states, HIDDEN)
      IN  /\ (\E h \in hidden : RevealedAround(h) >= 1) =>
                \E h \in hidden :
                  /\ found.out = Reveal(h)
                  /\ \A g \in hidden :
                       \/ RevealedAround(g) < RevealedAround(h)
                       \/ /\ RevealedAround(g) = RevealedAround(h)
                          /\ RowMajor(h, g)
          /\ (/\ hidden # {}
              /\ \A h \in hidden : RevealedAround(h) = 0
              /\ hidden \cap BoardCorners # {}) =>
                found.out \in { Reveal(c) : c \in hidden \cap BoardCorners }

\* a guess on a board where two Hidden cells tie for the most Revealed
\* neighbours, at least one: the first of them in row-major order was
\* returned
C28_Witness ==
    /\ Guessed
    /\ \E h, g \in CellsIn(cell_states, HIDDEN) :
         /\ h # g
         /\ RowMajor(h, g)
         /\ RevealedAround(h) >= 1
         /\ RevealedAround(g) = RevealedAround(h)
         /\ \A k \in CellsIn(cell_states, HIDDEN) :
              RevealedAround(k) <= RevealedAround(h)
         /\ found.out = Reveal(h)

(***************************************************************************)
(* C29: choose_action, of any of the three agents, returns None if and     *)
(* only if no cell of the board is HIDDEN; when a HIDDEN cell remains it   *)
(* returns a 'reveal' or a 'flag' action, and it never raises: on every    *)
(* board each choose_action has a value to return.                         *)
(***************************************************************************)
C29_NoneIffNoHidden ==
    /\ found.op \in ChooseOps =>
         /\ found.out = NoAction <=> CellsIn(cell_states, HIDDEN) = {}
         /\ found.out # NoAction => found.out[1] \in {"reveal", "flag"}
    /\ PatternAgent_choose_action(rows, cols, board, cell_states) # {}
    /\ MinesweeperAgent_choose_action(rows, cols, board, cell_states) # {}
    /\ RandomAgent_choose_action(rows, cols, cell_states) # {}

\* a board with Revealed and Flagged cells and no Hidden cell, on which
\* RandomAgent.choose_action returned None
C29_Witness ==
    /\ found.op = "RandomAgent.choose_action"
    /\ found.out = NoAction
    /\ CellsIn(cell_states, HIDDEN) = {}
    /\ CellsIn(cell_states, REVEALED) # {}
    /\ CellsIn(cell_states, FLAGGED) # {}

\* the value the latest query returned is one the same query may return on
\* the board as it is now
FreshAnswer ==
    /\ found.op = "find_certain_mines" =>
         found.out = find_certain_mines(rows, cols, board, cell_states)
    /\ found.op = "find_certain_safe" =>
         found.out = find_certain_safe(rows, cols, board, cell_states)
    /\ found.op = "check_1_2_pattern" =>
         found.out = check_1_2_pattern(rows, cols, board, cell_states)
    /\ found.op = "check_1_2_1_pattern" =>
         found.out = check_1_2_1_pattern(rows, cols, board, cell_states)
    /\ found.op = "check_1_1_pattern" =>
         found.out = check_1_1_pattern(rows, cols, board, cell_states)
    /\ found.op = "calculate_statistics" =>
         found.out = calculate_statistics(rows, cols, num_mines, cell_states)
    /\ found.op = "PatternAgent.choose_action" =>
         found.out \in PatternAgent_choose_action(rows, cols, board,
                                                  cell_states)
    /\ found.op = "MinesweeperAgent.choose_action" =>
         found.out \in MinesweeperAgent_choose_action(rows, cols, board,
                                                      cell_states)
    /\ found.op = "RandomAgent.choose_action" =>
         found.out \in RandomAgent_choose_action(rows, cols, cell_states)

(***************************************************************************)
(* C30: the inference components only read the board.  A call of           *)
(* choose_action, find_certain_mines, find_certain_safe, a pattern check   *)
(* or calculate_statistics leaves the cell states, the mine set,           *)
(* flags_placed, cells_revealed and game_state (and the size and the       *)
(* numbers) as they were; and the agent keeps no knowledge between calls:  *)
(* knowledge_base stays empty, and after any sequence of queries the       *)
(* answer of the latest one is an answer of a first call on that board.    *)
(***************************************************************************)
C30_QueriesOnlyRead ==
    /\ [](knowledge_base = << >> /\ FreshAnswer)
    /\ [][found'.op # "none" =>
            UNCHANGED <<rows, cols, num_mines, board, cell_states, mines,
                        game_state, flags_placed, cells_revealed,
                        first_click, knowledge_base>>]_vars

\* a game in play with a revealed number: PatternAgent.choose_action
\* returned the flag of a cell, and the cell is still Hidden and no flag
\* is placed
C30_Witness ==
    /\ game_state = PLAYING
    /\ found.op = "PatternAgent.choose_action"
    /\ found.out[1] = "flag"
    /\ cell_states[<<found.out[2], found.out[3]>>] = HIDDEN
    /\ flags_placed = 0
    /\ \E c \in CellsIn(cell_states, REVEALED) : board[c] > 0

(***************************************************************************)
(* Vocabulary of the leaderboard properties.                               *)
(***************************************************************************)
\* the bag of the times of the entries of list l
TimesOf(l) ==
    [t \in { l[i].time : i \in DOMAIN l } |->
        Cardinality({ i \in DOMAIN l : l[i].time = t })]

\* the times given for a difficulty that its list does not hold
LeftOut(name) == added[name] (-) TimesOf(entries[name])

(***************************************************************************)
(* C31  Leaderboard retention.  From an empty leaderboard, after any       *)
(* sequence of add_entry calls, the list of each difficulty is sorted      *)
(* ascending by time, holds at most 10 entries, all of that difficulty,    *)
(* and holds the 10 smallest times given so far for that difficulty (all   *)
(* of them while there are at most 10): its times are among the times      *)
(* given, as many as were given up to 10, and no time left out is smaller   *)
(* than a time kept.  An add leaves the lists of the other difficulties    *)
(* as they were.                                                           *)
(***************************************************************************)
C31_Retained ==
    \A name \in Names :
        LET l     == entries[name]
            given == BagCardinality(added[name])
        IN  /\ \A i, j \in DOMAIN l : i < j => l[i].time <= l[j].time
            /\ Len(l) <= 10
            /\ Len(l) = IF given < 10 THEN given ELSE 10
            /\ \A i \in DOMAIN l : l[i].difficulty = name
            /\ TimesOf(l) \sqsubseteq added[name]
            /\ \A t \in BagToSet(LeftOut(name)) : \A i \in DOMAIN l :
                   l[i].time <= t

C31_LeaderboardRetention ==
    /\ []C31_Retained
    /\ [][\A name \in Names :
              added'[name] = added[name] => entries'[name] = entries[name]]_vars

\* a list has overflowed: a time given for it was left out, a smaller time
\* is kept, and the list of another difficulty holds an entry
C31_Witness ==
    \E name \in Names, other \in Names :
        /\ other # name
        /\ entries[other] # << >>
        /\ Len(entries[name]) = 10
        /\ \E t \in BagToSet(LeftOut(name)) :
               \E i \in DOMAIN entries[name] : entries[name][i].time < t

(***************************************************************************)
(* C32  A mine cell is REVEALED only when game_state is LOST, and in LOST  *)
(* exactly one mine cell is REVEALED; in WON every cell that is not a mine *)
(* is REVEALED and no mine cell is.                                        *)
(***************************************************************************)
C32_RevealedMines ==
    LET shown == mines \cap CellsIn(cell_states, REVEALED)
    IN  /\ shown # {} => game_state = LOST
        /\ game_state = LOST => Cardinality(shown) = 1
        /\ game_state = WON =>
               /\ shown = {}
               /\ \A p \in DOMAIN cell_states :
                      p \notin mines => cell_states[p] = REVEALED

\* a lost game with its one revealed mine and another mine still covered
C32_Witness ==
    /\ game_state = LOST
    /\ \E p \in mines : cell_states[p] = REVEALED
    /\ \E p \in mines : cell_states[p] # REVEALED

(***************************************************************************)
(* C33  First-click safety over any sequence of operations.  After a       *)
(* reset (or construction) the first cell that becomes REVEALED is not a   *)
(* mine: a step that reveals the first cells of a board reveals no mine,   *)
(* so whenever a cell is REVEALED some REVEALED cell is not a mine, and a  *)
(* game is not LOST before a cell that is not a mine has been revealed,    *)
(* whatever flags or reveals without effect came before.                   *)
(***************************************************************************)
C33_FirstRevealedIsSafe ==
    LET shown == CellsIn(cell_states, REVEALED)
    IN  /\ shown # {} => shown \ mines # {}
        /\ game_state = LOST => shown \ mines # {}

(***************************************************************************)
(* Vocabulary of the properties of run_with_ai.                            *)
(***************************************************************************)
\* the step applies an action that an agent returned
ActionApplied == applied' = applied + 1

\* the action that was applied, and the cell it names
AppliedAction == found'.out
AppliedCell   == <<found'.out[2], found'.out[3]>>

HiddenCount(cs) == Cardinality(CellsIn(cs, HIDDEN))

(***************************************************************************)
(* C34  Agent-driven play terminates.  Every action that choose_action of  *)
(* an agent returns, applied to a READY or PLAYING board, leaves fewer     *)
(* HIDDEN cells than before; so the actions applied since the board was    *)
(* fresh and the HIDDEN cells left never add up to more than rows * cols,  *)
(* and a loop that keeps applying choose_action has reached WON, LOST or   *)
(* "no action" once rows * cols actions are applied.                       *)
(***************************************************************************)
C34_AgentPlayTerminates ==
    /\ [](/\ applied + HiddenCount(cell_states) <= rows * cols
          /\ applied = rows * cols =>
                \/ game_state \in {WON, LOST}
                \/ ChooseAction(agent) = {NoAction})
    /\ [][ActionApplied =>
              HiddenCount(cell_states') < HiddenCount(cell_states)]_vars

\* a game in play in which the agent has flagged a cell and revealed cells,
\* with cells still hidden
C34_Witness ==
    /\ agent = "MinesweeperAgent"
    /\ game_state = PLAYING
    /\ applied >= 4
    /\ CellsIn(cell_states, FLAGGED) # {}
    /\ CellsIn(cell_states, HIDDEN) # {}

\* the HIDDEN cells that the counts around a REVEALED cell settle: all the
\* cells left around it are mines, or all its mines are flagged
DeducedMines ==
    { h \in CellsIn(cell_states, HIDDEN) :
        \E c \in CellsIn(cell_states, REVEALED) :
            /\ h \in HiddenAround(c)
            /\ Cardinality(HiddenAround(c)) + Cardinality(FlaggedAround(c))
                 = board[c] }
DeducedSafe ==
    { h \in CellsIn(cell_states, HIDDEN) :
        \E c \in CellsIn(cell_states, REVEALED) :
            /\ h \in HiddenAround(c)
            /\ Cardinality(FlaggedAround(c)) = board[c] }

(***************************************************************************)
(* C35  MinesweeperAgent plays a fresh board alone.  Every 'flag' action   *)
(* it returns names a mine, so every flag on the board is on a mine; every *)
(* 'reveal' action of the deduction step (strategy 2: some neighbour count *)
(* has all its mines flagged) names a deduced cell that is not a mine; and *)
(* the game becomes LOST only by a guess (strategy 3), that is on a step   *)
(* taken when no count settles any HIDDEN cell.                            *)
(***************************************************************************)
C35_DeductionNeverLoses ==
    /\ [](agent = "MinesweeperAgent" =>
              CellsIn(cell_states, FLAGGED) \subseteq mines)
    /\ [][(ActionApplied /\ agent = "MinesweeperAgent") =>
              /\ AppliedAction[1] = "flag" =>
                     AppliedCell \in mines /\ AppliedCell \in DeducedMines
              /\ (AppliedAction[1] = "reveal" /\ DeducedSafe # {}) =>
                     AppliedCell \in DeducedSafe /\ AppliedCell \notin mines'
              /\ game_state' = LOST =>
                     DeducedMines = {} /\ DeducedSafe = {}]_vars

\* the agent has flagged a mine, has then revealed a cell by deduction,
\* and the game goes on
C35_Witness ==
    /\ agent = "MinesweeperAgent"
    /\ game_state = PLAYING
    /\ found.op = "run_with_ai"
    /\ found.out[1] = "reveal"
    /\ \E c \in CellsIn(cell_states, REVEALED) :
           /\ Adjacent(c, <<found.out[2], found.out[3]>>)
           /\ board[c] > 0
           /\ Cardinality(FlaggedAround(c)) = board[c]

C37_PassesAgree ==
    /\ found.op = "get_mine_cells" => Elements(found.out) = CertainMines
    /\ found.op = "get_safe_cells" => Elements(found.out) = CertainSafe

\* get_safe_cells has returned cells on a board where a number has a flag
\* beside it, another number has more flags around it than its value, and
\* the two passes find mines as well
C37_Witness ==
    /\ found.op = "get_safe_cells"
    /\ found.out # << >>
    /\ CertainMines # {}
    /\ \E c \in CellsIn(cell_states, REVEALED) :
           board[c] > 0 /\ Effective(c) = 0 /\ HiddenAround(c) # {}
    /\ \E c \in CellsIn(cell_states, REVEALED) :
           Effective(c) < 0 /\ HiddenAround(c) # {}

=============================================================================
